---- MODULE Spec2Model ----
(***************************************************************************)
(* Model of mercagasto: the Mercadona receipt parser, the ticket           *)
(* validator of the PostgreSQL storage and the product category matcher.   *)
(*                                                                         *)
(* Receipt lines are TLA+ strings handled character by character, so the   *)
(* regular expressions and str methods of the source are computed, not     *)
(* assumed.  Python floats are IEEE doubles: a double x is the record      *)
(* [c, e] with x = (c * 2^60 + e) / (100 * 2^60), i.e. c cents plus the    *)
(* representation error e, and every float operation rounds to nearest     *)
(* even on the grid of its binade.  None is the empty sequence <<>> and a  *)
(* present optional value v is <<v>>.  TLC stores strings as bytes, so the  *)
(* receipts are written in ASCII: the euro sign is written $, and the      *)
(* accented o, accented E and ordinal sign of "Descripcion", "TELEFONO"    *)
(* and "N#" are written o, E and #.                                        *)
(***************************************************************************)
EXTENDS Integers, Sequences, FiniteSets, TLC

VARIABLES
    lines,      \* TicketParserBase.lines of the parser instance
    pc,         \* position inside MercadonaTicketParser.parse
    ticket,     \* <<>> or <<the TicketData the running parse() is filling>>
    returned,   \* tickets returned by the completed parse() calls, in order
    raised,     \* <<>> or <<exception>> that escaped parse()
    pl_line,    \* argument of _parse_product_line
    pl_result,  \* <<"pending">>, or <<"done", [exc, value]>> once it returned
    v_ticket,   \* argument of validate_ticket
    v_result,   \* <<>> or <<[is_valid, errors]>>
    m_query,    \* categorize_product arguments and the catalog snapshot
    m_result,   \* <<>> or <<[result, trace]>>
    t_args,     \* <<>> or <<the field values given to TicketData(...)>>
    t_made,     \* <<>> or <<[exc, value]>> once the constructor finished
    db,         \* the tables tiendas, tickets, productos, processing_log and their sequences
    st_log,     \* what each completed save_ticket call was given and gave
    st_got,     \* <<>> or <<[id, exc, value]>> of the last get_ticket_by_id
    p_stats,    \* <<>> or <<the stats the last process_all_tickets returned>>
    p_log,      \* the attempts on a PDF made by the last call of the processor
    p_count     \* the runs, the direct calls and the retries of each record so far

vars == <<lines, pc, ticket, returned, raised, pl_line, pl_result,
          v_ticket, v_result, m_query, m_result, t_args, t_made,
          db, st_log, st_got, p_stats, p_log, p_count>>

parserVars == <<lines, pc, ticket, returned, raised>>
lineVars == <<pl_line, pl_result>>
validatorVars == <<v_ticket, v_result>>
matcherVars == <<m_query, m_result>>
ticketVars == <<t_args, t_made>>
storeVars == <<db, st_log, st_got>>
processorVars == <<p_stats, p_log, p_count>>

None == <<>>
Some(v) == <<v>>

\* name = value, then the statements that use name
With(v, Body(_)) == Body(v)

SetMin(S) == CHOOSE x \in S : \A y \in S : x <= y
SetMax(S) == CHOOSE x \in S : \A y \in S : x >= y

(***************************************************************************)
(* str primitives                                                          *)
(***************************************************************************)
Ch(s, i) == SubSeq(s, i, i)

Digit == {"0", "1", "2", "3", "4", "5", "6", "7", "8", "9"}

DigitVal(ch) ==
    CASE ch = "0" -> 0 [] ch = "1" -> 1 [] ch = "2" -> 2 [] ch = "3" -> 3
      [] ch = "4" -> 4 [] ch = "5" -> 5 [] ch = "6" -> 6 [] ch = "7" -> 7
      [] ch = "8" -> 8 [] ch = "9" -> 9

IsDigit(ch) == ch \in Digit
IsSpace(ch) == ch \in {" ", "\t"}
NotSpace(ch) == ~IsSpace(ch)

\* needle in s
Contains(needle, s) ==
    \E i \in 1..(Len(s) - Len(needle) + 1) :
        SubSeq(s, i, i + Len(needle) - 1) = needle

\* s[i:].startswith(prefix)
StartsAt(prefix, s, i) ==
    /\ i + Len(prefix) - 1 <= Len(s)
    /\ SubSeq(s, i, i + Len(prefix) - 1) = prefix

\* last index of the longest run of characters satisfying P that starts at
\* i (i - 1 when the run is empty): the greedy match of P+ or P*
RECURSIVE RunEndOf(_, _, _)
RunEndOf(P(_), s, i) ==
    IF i > Len(s) THEN i - 1
    ELSE IF P(Ch(s, i)) THEN RunEndOf(P, s, i + 1) ELSE i - 1

RunEnd(s, i, P(_)) == RunEndOf(P, s, i)

\* the first index in i..n that satisfies P, 0 when there is none: the
\* leftmost position at which re.search finds a match
RECURSIVE First(_, _, _)
First(P(_), i, n) ==
    IF i > n THEN 0 ELSE IF P(i) THEN i ELSE First(P, i + 1, n)

RECURSIVE Last(_, _, _)
Last(P(_), i, n) ==
    IF n < i THEN 0 ELSE IF P(n) THEN n ELSE Last(P, i, n - 1)

\* re.search of a pattern whose match at i ends at EndAt(i) (0: no match at
\* i): the text of the leftmost match, or None
Search(EndAt(_), s) ==
    With(First(LAMBDA i : EndAt(i) > 0, 1, Len(s)), LAMBDA b :
    IF b = 0 THEN None ELSE Some(SubSeq(s, b, EndAt(b))))

\* str.strip()
strip(s) ==
    With(First(LAMBDA i : NotSpace(Ch(s, i)), 1, Len(s)), LAMBDA b :
    IF b = 0 THEN ""
    ELSE SubSeq(s, b, Last(LAMBDA i : NotSpace(Ch(s, i)), 1, Len(s))))

RECURSIVE SplitFrom(_, _)
SplitFrom(s, i) ==
    With(First(LAMBDA k : NotSpace(Ch(s, k)), i, Len(s)), LAMBDA b :
    IF b = 0 THEN <<>>
    ELSE With(RunEnd(s, b, NotSpace), LAMBDA e :
         <<SubSeq(s, b, e)>> \o SplitFrom(s, e + 1)))

\* str.split() with no separator
split(s) == SplitFrom(s, 1)

\* ' '.join(parts)
RECURSIVE join(_)
join(parts) ==
    IF Len(parts) = 0 THEN ""
    ELSE IF Len(parts) = 1 THEN parts[1]
    ELSE parts[1] \o " " \o join(Tail(parts))

RECURSIVE ToNat(_)
ToNat(ds) ==
    IF Len(ds) = 0 THEN 0
    ELSE ToNat(SubSeq(ds, 1, Len(ds) - 1)) * 10 + DigitVal(Ch(ds, Len(ds)))

AllDigits(s) == Len(s) > 0 /\ \A i \in 1..Len(s) : IsDigit(Ch(s, i))

\* int(tok): an optional sign and decimal digits, ValueError otherwise
int(tok) ==
    With(Len(tok) > 0 /\ Ch(tok, 1) \in {"+", "-"}, LAMBDA signed :
    With(IF signed THEN SubSeq(tok, 2, Len(tok)) ELSE tok, LAMBDA body :
    IF AllDigits(body)
    THEN [exc |-> "none",
          value |-> IF signed /\ Ch(tok, 1) = "-" THEN 0 - ToNat(body)
                    ELSE ToNat(body)]
    ELSE [exc |-> "ValueError", value |-> 0]))

(***************************************************************************)
(* float: IEEE double arithmetic on [c, e]                                 *)
(***************************************************************************)
RECURSIVE Pow2(_)
Pow2(k) == IF k = 0 THEN 1 ELSE 2 * Pow2(k - 1)

RECURSIVE Pow2Mod25(_)
Pow2Mod25(k) == IF k = 0 THEN 1 ELSE (2 * Pow2Mod25(k - 1)) % 25

\* (c, e) is below n cents
BelowCents(c, e, n) == c < n \/ (c = n /\ e < 0)

\* exponent j of the spacing 2^j (in units of 2^-60) of the doubles around a
\* positive value; 0 when every multiple of 2^-60 there is a double
RECURSIVE GrainFrom(_, _, _)
GrainFrom(c, e, j) ==
    IF BelowCents(c, e, 25 * Pow2(j - 5)) THEN j ELSE GrainFrom(c, e, j + 1)

Grain(c, e) ==
    IF c = 0 THEN 0
    ELSE IF c <= 1 THEN 1
    ELSE IF c <= 3 THEN 2
    ELSE IF c <= 6 THEN 3
    ELSE IF c <= 12 THEN 4
    ELSE GrainFrom(c, e, 5)

\* round a non-negative exact value to the nearest double, ties to even
RoundPos(c, e) ==
    With(Grain(c, e), LAMBDA j :
    IF j = 0 THEN [c |-> c, e |-> e]
    ELSE
    With(Pow2(j), LAMBDA g :
    With((8 * g * (((c % 25) * Pow2Mod25(57 - j)) % 25) + e) % (200 * g),
         LAMBDA r2 :
    LET r == r2 % (100 * g)
        odd == r2 >= 100 * g
    IN  IF r < 50 * g \/ (r = 50 * g /\ ~odd)
        THEN [c |-> c, e |-> e - r]
        ELSE [c |-> c, e |-> e + 100 * g - r])))

FNeg(x) == [c |-> 0 - x.c, e |-> 0 - x.e]

Round(c, e) ==
    IF c < 0 \/ (c = 0 /\ e < 0)
    THEN FNeg(RoundPos(0 - c, 0 - e))
    ELSE RoundPos(c, e)

\* the double nearest to n hundredths: float("<n/100>")
Cents(n) == Round(n, 0)

FAdd(x, y) == Round(x.c + y.c, x.e + y.e)
FSub(x, y) == Round(x.c - y.c, x.e - y.e)
FAbs(x) == IF x.c < 0 \/ (x.c = 0 /\ x.e < 0) THEN FNeg(x) ELSE x
FLe(x, y) == x.c < y.c \/ (x.c = y.c /\ x.e <= y.e)
FZero == [c |-> 0, e |-> 0]
FIsZero(x) == x = FZero

\* round to the nearest double the positive exact value of c hundredths plus
\* n units of 2^-60 / 100, plus (s > 0) or minus (s < 0) less than one unit
RoundFine(c, n, s) ==
    With(Grain(c, n \div 100), LAMBDA j :
    With(Pow2(j), LAMBDA g :
    With((800 * g * (((c % 25) * Pow2Mod25(57 - j)) % 25) + n) % (20000 * g),
         LAMBDA r2 :
    With(r2 % (10000 * g), LAMBDA r :
    IF \/ r < 5000 * g
       \/ r = 5000 * g /\ (s < 0 \/ (s = 0 /\ r2 < 10000 * g))
    THEN [c |-> c, e |-> (n - r) \div 100]
    ELSE [c |-> c, e |-> (n + 10000 * g - r) \div 100]))))

Sign(n) == IF n > 0 THEN 1 ELSE IF n < 0 THEN 0 - 1 ELSE 0

\* x * y for positive doubles whose hundredths multiply to whole hundredths
FMulWhole(x, y) ==
    RoundFine((x.c * y.c) \div 100, x.c * y.e + y.c * x.e, Sign(x.e) * Sign(y.e))

\* u / 100 >= x * y, for u hundredths and positive doubles x and y
AtLeastProduct(u, x, y) ==
    IF (x.c * y.c) % 100 = 0 THEN FLe(FMulWhole(x, y), Cents(u))
    ELSE 100 * u > x.c * y.c

\* u / 100 <= x * y
AtMostProduct(u, x, y) ==
    IF (x.c * y.c) % 100 = 0 THEN FLe(Cents(u), FMulWhole(x, y))
    ELSE 100 * u < x.c * y.c

(***************************************************************************)
(* models/ticket.py                                                        *)
(***************************************************************************)
\* a Product whose __post_init__ checks nothing
ProductUnchecked(quantity, description, unit_price, total_price, weight) ==
    [exc |-> "none",
     value |-> Some([quantity |-> quantity,
                     description |-> description,
                     unit_price |-> unit_price,
                     total_price |-> total_price,
                     weight |-> weight])]

\* Product(...) runs __post_init__: the instance or a ValueError
Product(quantity, description, unit_price, total_price, weight) ==
    IF quantity <= 0 THEN [exc |-> "ValueError", value |-> None]
    ELSE IF FLe(total_price, FZero) THEN [exc |-> "ValueError", value |-> None]
    ELSE IF description = "" \/ strip(description) = ""
         THEN [exc |-> "ValueError", value |-> None]
    ELSE [exc |-> "none",
          value |-> Some([quantity |-> quantity,
                          description |-> description,
                          unit_price |-> unit_price,
                          total_price |-> total_price,
                          weight |-> weight])]

(***************************************************************************)
(* parsers/mercadona.py: one product line                                  *)
(***************************************************************************)
\* i..k is a match of \d+,\d+ that starts at i (0: no match at i)
DecimalEndAt(s, i) ==
    With(RunEnd(s, i, IsDigit), LAMBDA j :
    With(RunEnd(s, j + 2, IsDigit), LAMBDA k :
    IF j >= i /\ StartsAt(",", s, j + 1) /\ k >= j + 2 THEN k ELSE 0))

\* re.match(r'^\d+,\d+$', part)
IsPriceToken(part) == Len(part) > 0 /\ DecimalEndAt(part, 1) = Len(part)

\* float(part.replace(',', '.')) of a price token with one or two decimals
PriceToFloat(part) ==
    With(RunEnd(part, 1, IsDigit), LAMBDA j :
    LET frac == SubSeq(part, j + 2, Len(part))
    IN  Cents(ToNat(SubSeq(part, 1, j)) * 100
              + (IF Len(frac) = 1 THEN 10 * ToNat(frac) ELSE ToNat(frac))))

\* a slip of the weight pattern: no whitespace allowed before kg
WeightEndAtGlued(line, i) ==
    With(DecimalEndAt(line, i), LAMBDA k :
    IF k > 0 /\ StartsAt("kg", line, k + 1) THEN k ELSE 0)

\* i..k is a match of \d+,\d+ followed by \s*kg (0: no match at i)
WeightEndAt(line, i) ==
    With(DecimalEndAt(line, i), LAMBDA k :
    IF k > 0 /\ StartsAt("kg", line, RunEnd(line, k + 1, IsSpace) + 1)
    THEN k ELSE 0)

\* re.search(r'(\d+,\d+)\s*kg', line): the text of group 1, or None
WeightSearch(line) == Search(LAMBDA i : WeightEndAt(line, i), line)

\* a slip of the positional rule: the two prices taken the other way round
AssignPricesSwapped(prices) ==
    IF Len(prices) = 2
    THEN [unit_price |-> Some(prices[2]), total_price |-> prices[1]]
    ELSE [unit_price |-> None, total_price |-> prices[1]]

\* with two prices the first is the unit price and the second the total;
\* otherwise the first is the total
AssignPrices(prices) ==
    IF Len(prices) = 2
    THEN [unit_price |-> Some(prices[1]), total_price |-> prices[2]]
    ELSE [unit_price |-> None, total_price |-> prices[1]]

\* "return None"
NoProduct == [exc |-> "none", value |-> None]

\* The result is [exc, value]: value is the Optional[Product] returned; exc
\* is "none" because both try blocks catch the ValueError they can get.
_parse_product_line(line) ==
    With(split(line), LAMBDA parts :
    IF Len(parts) < 2 THEN NoProduct
    ELSE
    With(int(parts[1]), LAMBDA quantity :
    IF quantity.exc = "ValueError" THEN NoProduct
    ELSE
    With(SelectSeq([i \in 1..Len(parts) |-> i],
                   LAMBDA i : IsPriceToken(parts[i])), LAMBDA price_indices :
    IF Len(price_indices) = 0 THEN NoProduct
    ELSE
    With(AssignPrices([k \in 1..Len(price_indices) |->
                          PriceToFloat(parts[price_indices[k]])]),
         LAMBDA assigned :
    With(WeightSearch(line), LAMBDA weight_match :
    With(Product(quantity.value,
                 join(SubSeq(parts, 2, price_indices[1] - 1)),
                 assigned.unit_price,
                 assigned.total_price,
                 IF Contains("kg", line) /\ weight_match # None
                 THEN Some(weight_match[1] \o " kg") ELSE None),
         LAMBDA made :
    IF made.exc = "ValueError" THEN NoProduct
    ELSE [exc |-> "none", value |-> made.value]))))))

(***************************************************************************)
(* parsers/base.py                                                         *)
(***************************************************************************)
\* characters of the receipts that \w does not match
NonWord == {" ", "\t", ",", ".", ":", ";", "/", "-", "+", "%", "$", "(", ")"}
IsWordChar(ch) == ch \notin NonWord

\* str.upper() on one character
UpperCh(ch) ==
    CASE ch = "a" -> "A" [] ch = "b" -> "B" [] ch = "c" -> "C" [] ch = "d" -> "D"
      [] ch = "e" -> "E" [] ch = "f" -> "F" [] ch = "g" -> "G" [] ch = "h" -> "H"
      [] ch = "i" -> "I" [] ch = "j" -> "J" [] ch = "k" -> "K" [] ch = "l" -> "L"
      [] ch = "m" -> "M" [] ch = "n" -> "N" [] ch = "o" -> "O" [] ch = "p" -> "P"
      [] ch = "q" -> "Q" [] ch = "r" -> "R" [] ch = "s" -> "S" [] ch = "t" -> "T"
      [] ch = "u" -> "U" [] ch = "v" -> "V" [] ch = "w" -> "W" [] ch = "x" -> "X"
      [] ch = "y" -> "Y" [] ch = "z" -> "Z"
      [] OTHER -> ch

\* str.lower() on one character
LowerCh(ch) ==
    CASE ch = "A" -> "a" [] ch = "B" -> "b" [] ch = "C" -> "c" [] ch = "D" -> "d"
      [] ch = "E" -> "e" [] ch = "F" -> "f" [] ch = "G" -> "g" [] ch = "H" -> "h"
      [] ch = "I" -> "i" [] ch = "J" -> "j" [] ch = "K" -> "k" [] ch = "L" -> "l"
      [] ch = "M" -> "m" [] ch = "N" -> "n" [] ch = "O" -> "o" [] ch = "P" -> "p"
      [] ch = "Q" -> "q" [] ch = "R" -> "r" [] ch = "S" -> "s" [] ch = "T" -> "t"
      [] ch = "U" -> "u" [] ch = "V" -> "v" [] ch = "W" -> "w" [] ch = "X" -> "x"
      [] ch = "Y" -> "y" [] ch = "Z" -> "z"
      [] OTHER -> ch

RECURSIVE MapStr(_, _)
MapStr(F(_), s) ==
    IF Len(s) = 0 THEN "" ELSE F(Ch(s, 1)) \o MapStr(F, SubSeq(s, 2, Len(s)))

upper(s) == MapStr(UpperCh, s)
lower(s) == MapStr(LowerCh, s)

\* __init__: text.strip().split('\n') if text else []
\* A text is given as the sequence of its raw lines; the empty text has none.
TicketParserBase(textLines) == textLines

_clean_text(text) == IF text = "" THEN "" ELSE strip(text)

\* re.search(r'(\d+,\d+)', text), then float of the match with ',' -> '.'
_extract_price(text) ==
    With(Search(LAMBDA i : DecimalEndAt(text, i), text), LAMBDA m :
    IF m = None THEN None ELSE Some(PriceToFloat(m[1])))

DaysInMonth(m, y) ==
    IF m \in {4, 6, 9, 11} THEN 30
    ELSE IF m = 2
         THEN (IF y % 4 = 0 /\ (y % 100 # 0 \/ y % 400 = 0) THEN 29 ELSE 28)
    ELSE 31

\* datetime.strptime(text, "%d/%m/%Y") of a dd/mm/yyyy text
strptime(text) ==
    LET d == ToNat(SubSeq(text, 1, 2))
        m == ToNat(SubSeq(text, 4, 5))
        y == ToNat(SubSeq(text, 7, 10))
    IN  IF m \in 1..12 /\ y >= 1 /\ d \in 1..DaysInMonth(m, y)
        THEN [exc |-> "none", value |-> [day |-> d, month |-> m, year |-> y]]
        ELSE [exc |-> "ValueError", value |-> None]

\* \d{2}/\d{2}/\d{4} at position i
DateAt(s, i) ==
    /\ i + 9 <= Len(s)
    /\ \A k \in {0, 1, 3, 4, 6, 7, 8, 9} : IsDigit(Ch(s, i + k))
    /\ Ch(s, i + 2) = "/" /\ Ch(s, i + 5) = "/"

\* a slip of the handler: the ValueError of strptime is not caught
_extract_date_uncaught(text) ==
    With(First(LAMBDA i : DateAt(text, i), 1, Len(text)), LAMBDA b :
    IF b = 0 THEN [exc |-> "none", value |-> None]
    ELSE
    With(strptime(SubSeq(text, b, b + 9)), LAMBDA parsed :
    IF parsed.exc = "ValueError" THEN [exc |-> "ValueError", value |-> None]
    ELSE [exc |-> "none", value |-> Some(parsed.value)]))

\* re.search(r'(\d{2}/\d{2}/\d{4})', text) and strptime; the ValueError of
\* strptime is caught and gives None
_extract_date(text) ==
    With(First(LAMBDA i : DateAt(text, i), 1, Len(text)), LAMBDA b :
    IF b = 0 THEN [exc |-> "none", value |-> None]
    ELSE
    With(strptime(SubSeq(text, b, b + 9)), LAMBDA parsed :
    IF parsed.exc = "ValueError" THEN [exc |-> "none", value |-> None]
    ELSE [exc |-> "none", value |-> Some(parsed.value)]))

(***************************************************************************)
(* models/ticket.py: TicketData                                            *)
(***************************************************************************)
\* TicketData(...) runs __post_init__: the instance or a ValueError
TicketData(t) ==
    IF FLe(t.total, FZero) /\ Len(t.products) > 0
    THEN [exc |-> "ValueError", value |-> None]
    ELSE IF t.store_name # "" /\ strip(t.store_name) = ""
    THEN [exc |-> "ValueError", value |-> None]
    ELSE IF t.cif # "" /\ strip(t.cif) = ""
    THEN [exc |-> "ValueError", value |-> None]
    ELSE [exc |-> "none", value |-> Some(t)]

NoDict == [k \in {} |-> 0]

\* the arguments parse() gives to TicketData
EmptyTicket ==
    [store_name |-> "", cif |-> "", address |-> "", postal_code |-> "",
     city |-> "", phone |-> "", date |-> None, time |-> "",
     order_number |-> "", invoice_number |-> "", products |-> <<>>,
     total |-> FZero, payment_method |-> "", iva_breakdown |-> NoDict]

(***************************************************************************)
(* parsers/mercadona.py: the extractors                                    *)
(***************************************************************************)
\* i..c is a match of \d+-\d+-\d+ that starts at i (0: no match at i)
DashedEndAt(s, i) ==
    With(RunEnd(s, i, IsDigit), LAMBDA a :
    With(RunEnd(s, a + 2, IsDigit), LAMBDA b :
    With(RunEnd(s, b + 2, IsDigit), LAMBDA c :
    IF /\ a >= i /\ StartsAt("-", s, a + 1)
       /\ b >= a + 2 /\ StartsAt("-", s, b + 1)
       /\ c >= b + 2
    THEN c ELSE 0)))

\* re.search(r'(\d+-\d+-\d+)', line): group 1 or None
DashedSearch(line) == Search(LAMBDA i : DashedEndAt(line, i), line)

\* re.search(label + r'\s*(\d+)', line): group 1 or None
LabelDigitsSearch(label, line) ==
    LET DigitsFrom(i) == RunEnd(line, i + Len(label), IsSpace) + 1
    IN  With(First(LAMBDA i : /\ StartsAt(label, line, i)
                              /\ DigitsFrom(i) <= Len(line)
                              /\ IsDigit(Ch(line, DigitsFrom(i))),
                   1, Len(line)), LAMBDA at :
        IF at = 0 THEN None
        ELSE With(DigitsFrom(at), LAMBDA d :
             Some(SubSeq(line, d, RunEnd(line, d, IsDigit)))))

\* re.search(r'(\d+-\d+-\d+|\d+)', line): group 1 or None
DashedOrDigitsSearch(line) ==
    With(First(LAMBDA i : IsDigit(Ch(line, i)), 1, Len(line)), LAMBDA b :
    IF b = 0 THEN None
    ELSE
    With(DashedEndAt(line, b), LAMBDA e :
    IF e > 0 THEN Some(SubSeq(line, b, e))
    ELSE Some(SubSeq(line, b, RunEnd(line, b, IsDigit)))))

\* re.search(r'N#\s*(?:FACTURA|FAC):', line, re.IGNORECASE)
NumLabelSearch(line) ==
    With(upper(line), LAMBDA u :
    \E i \in 1..Len(u) :
        /\ StartsAt("N#", u, i)
        /\ With(RunEnd(u, i + 2, IsSpace) + 1, LAMBDA b :
           StartsAt("FACTURA:", u, b) \/ StartsAt("FAC:", u, b)))

\* re.search(r'MERCADONA.*?A-(\d+)', line): group 1 or None
CifSearch(line) ==
    With(First(LAMBDA i : StartsAt("MERCADONA", line, i), 1, Len(line)),
         LAMBDA name :
    IF name = 0 THEN None
    ELSE
    With(First(LAMBDA k : /\ StartsAt("A-", line, k)
                          /\ k + 2 <= Len(line)
                          /\ IsDigit(Ch(line, k + 2)),
               name + 9, Len(line)), LAMBDA mark :
    IF mark = 0 THEN None
    ELSE Some(SubSeq(line, mark + 2, RunEnd(line, mark + 2, IsDigit)))))

\* re.search(r'(\d{9})', line): group 1 or None
NineDigitsSearch(line) ==
    With(First(LAMBDA i : RunEnd(line, i, IsDigit) >= i + 8, 1, Len(line)),
         LAMBDA b :
    IF b = 0 THEN None ELSE Some(SubSeq(line, b, b + 8)))

\* re.match(r'\d{5}\s+\w+', line)
PostalMatch(line) ==
    /\ Len(line) >= 7
    /\ \A k \in 1..5 : IsDigit(Ch(line, k))
    /\ IsSpace(Ch(line, 6))
    /\ With(RunEnd(line, 6, IsSpace) + 1, LAMBDA w :
       w <= Len(line) /\ IsWordChar(Ch(line, w)))

\* re.match(r'\d{2}/\d{2}/\d{4}\s+\d{2}:\d{2}', line)
DateTimeMatch(line) ==
    /\ DateAt(line, 1)
    /\ Len(line) >= 11 /\ IsSpace(Ch(line, 11))
    /\ With(RunEnd(line, 11, IsSpace) + 1, LAMBDA w :
       /\ w + 4 <= Len(line)
       /\ \A k \in {0, 1, 3, 4} : IsDigit(Ch(line, w + k))
       /\ Ch(line, w + 2) = ":")

\* if match: ticket.invoice_number = match.group(1)
SetInvoiceNumber(t, match) ==
    IF match # None THEN [t EXCEPT !.invoice_number = match[1]] ELSE t

\* a slip of the overwrite rule: a labelled number does not replace a number
\* that is already set
InvoiceLineKeepFirst(t, line) ==
    IF t.invoice_number # "" THEN t
    ELSE IF Contains("FACTURA SIMPLIFICADA:", line)
    THEN SetInvoiceNumber(t, DashedSearch(line))
    ELSE IF Contains("FACTURA:", line)
    THEN SetInvoiceNumber(t, LabelDigitsSearch("FACTURA:", line))
    ELSE IF NumLabelSearch(line)
    THEN SetInvoiceNumber(t, DashedOrDigitsSearch(line))
    ELSE SetInvoiceNumber(t, DashedSearch(line))

\* a slip of the fallback: it lacks the "not ticket.invoice_number" guard
InvoiceLineFallbackOverwrites(t, line) ==
    IF Contains("FACTURA SIMPLIFICADA:", line)
    THEN SetInvoiceNumber(t, DashedSearch(line))
    ELSE IF Contains("FACTURA:", line)
    THEN SetInvoiceNumber(t, LabelDigitsSearch("FACTURA:", line))
    ELSE IF NumLabelSearch(line)
    THEN SetInvoiceNumber(t, DashedOrDigitsSearch(line))
    ELSE SetInvoiceNumber(t, DashedSearch(line))

\* the invoice-number branches of the elif chain of _parse_store_info
InvoiceLine(t, line) ==
    IF Contains("FACTURA SIMPLIFICADA:", line)
    THEN SetInvoiceNumber(t, DashedSearch(line))
    ELSE IF Contains("FACTURA:", line)
    THEN SetInvoiceNumber(t, LabelDigitsSearch("FACTURA:", line))
    ELSE IF NumLabelSearch(line)
    THEN SetInvoiceNumber(t, DashedOrDigitsSearch(line))
    ELSE IF t.invoice_number = ""
    THEN With(DashedSearch(line), LAMBDA match :
         IF match # None /\ Len(t.products) = 0
         THEN [t EXCEPT !.invoice_number = match[1]]
         ELSE t)
    ELSE t

\* the body of the loop of _parse_store_info for one line; [exc, ticket]
StoreInfoLine(t, raw) ==
    LET ok(x) == [exc |-> "none", ticket |-> x]
    IN  With(_clean_text(raw), LAMBDA line :
        IF Contains("MERCADONA", line) /\ Contains("A-", line)
        THEN With(CifSearch(line), LAMBDA cif :
             IF cif # None
             THEN ok([t EXCEPT !.store_name = "MERCADONA, S.A.",
                               !.cif = "A-" \o cif[1]])
             ELSE ok(t))
        ELSE IF Contains("C/", line) \/ Contains("HUMANES", line)
        THEN ok([t EXCEPT !.address = line])
        ELSE IF PostalMatch(line)
        THEN With(split(line), LAMBDA parts :
             ok([t EXCEPT !.postal_code = parts[1],
                          !.city = join(Tail(parts))]))
        ELSE IF Contains("TELEFONO:", line)
        THEN With(NineDigitsSearch(line), LAMBDA phone :
             IF phone # None THEN ok([t EXCEPT !.phone = phone[1]])
             ELSE ok(t))
        ELSE IF DateTimeMatch(line)
        THEN With(split(line), LAMBDA parts :
             IF Len(parts) >= 2
             THEN With(_extract_date(parts[1]), LAMBDA d :
                  IF d.exc # "none" THEN [exc |-> d.exc, ticket |-> t]
                  ELSE ok([t EXCEPT !.date = d.value, !.time = parts[2]]))
             ELSE ok(t))
        ELSE IF Contains("OP:", line)
        THEN With(LabelDigitsSearch("OP:", line), LAMBDA op :
             IF op # None THEN ok([t EXCEPT !.order_number = op[1]])
             ELSE ok(t))
        ELSE ok(InvoiceLine(t, line)))

\* for line in self.lines: ... ; an exception ends the loop
RECURSIVE FoldLines(_, _, _, _)
FoldLines(Body(_, _), acc, ls, i) ==
    IF i > Len(ls) \/ acc.exc # "none" THEN acc
    ELSE FoldLines(Body, Body(acc, ls[i]), ls, i + 1)

_parse_store_info(t, ls) ==
    FoldLines(LAMBDA acc, raw : StoreInfoLine(acc.ticket, raw),
              [exc |-> "none", ticket |-> t], ls, 1)

\* a slip of the span: in_products is not consulted
ProductsLineNoSpan(acc, raw) ==
    With(_clean_text(raw), LAMBDA line :
    IF Contains("Descripcion", line) /\ Contains("Importe", line)
    THEN [acc EXCEPT !.in_products = TRUE]
    ELSE IF Contains("TOTAL", line) /\ Contains("$", line)
    THEN [acc EXCEPT !.in_products = FALSE]
    ELSE IF line = "" THEN acc
    ELSE
    With(_parse_product_line(line), LAMBDA product :
    IF product.exc # "none" THEN [acc EXCEPT !.exc = product.exc]
    ELSE IF product.value # None
    THEN [acc EXCEPT !.ticket.products = Append(@, product.value[1])]
    ELSE acc))

\* the body of the loop of _parse_products; acc carries in_products
ProductsLine(acc, raw) ==
    With(_clean_text(raw), LAMBDA line :
    IF Contains("Descripcion", line) /\ Contains("Importe", line)
    THEN [acc EXCEPT !.in_products = TRUE]
    ELSE IF Contains("TOTAL", line) /\ Contains("$", line)
    THEN [acc EXCEPT !.in_products = FALSE]
    ELSE IF ~acc.in_products \/ line = "" THEN acc
    ELSE
    With(_parse_product_line(line), LAMBDA product :
    IF product.exc # "none" THEN [acc EXCEPT !.exc = product.exc]
    ELSE IF product.value # None
    THEN [acc EXCEPT !.ticket.products = Append(@, product.value[1])]
    ELSE acc))

_parse_products(t, ls) ==
    With(FoldLines(ProductsLine,
                   [exc |-> "none", ticket |-> t, in_products |-> FALSE],
                   ls, 1), LAMBDA r :
    [exc |-> r.exc, ticket |-> r.ticket])

\* price = self._extract_price(line) of a line with both markers, else None
TotalPriceAt(line) ==
    IF Contains("TOTAL", line) /\ Contains("$", line)
    THEN _extract_price(line) ELSE None

\* the first line with both markers and a non-zero price sets the total
_parse_total(t, ls) ==
    With(First(LAMBDA i : With(TotalPriceAt(ls[i]), LAMBDA price :
                               price # None /\ ~FIsZero(price[1])),
               1, Len(ls)), LAMBDA hit :
    IF hit = 0 THEN [exc |-> "none", ticket |-> t]
    ELSE [exc |-> "none",
          ticket |-> [t EXCEPT !.total = _extract_price(ls[hit])[1]]])

\* float(tok.replace(',', '.')) of a token of an IVA line
FloatOf(tok) ==
    LET j == RunEnd(tok, 1, IsDigit)
    IN  IF AllDigits(tok) THEN [exc |-> "none", value |-> Cents(100 * ToNat(tok))]
        ELSE IF /\ j >= 1 /\ j + 2 <= Len(tok) /\ Ch(tok, j + 1) \in {",", "."}
                /\ RunEnd(tok, j + 2, IsDigit) = Len(tok)
        THEN [exc |-> "none",
              value |-> PriceToFloat(SubSeq(tok, 1, j) \o ","
                                      \o SubSeq(tok, j + 2, Len(tok)))]
        ELSE [exc |-> "ValueError", value |-> FZero]

DictSet(d, k, v) == [x \in DOMAIN d \cup {k} |-> IF x = k THEN v ELSE d[x]]

\* re.match(r'\d+%', line)
RateMatch(line) ==
    With(RunEnd(line, 1, IsDigit), LAMBDA j :
    j >= 1 /\ StartsAt("%", line, j + 1))

\* the body of the loop of _parse_iva; acc carries iva_section
IvaLine(acc, raw) ==
    With(_clean_text(raw), LAMBDA line :
    IF Contains("IVA", line) /\ Contains("BASE IMPONIBLE", line)
    THEN [acc EXCEPT !.iva_section = TRUE]
    ELSE IF acc.iva_section /\ RateMatch(line)
    THEN With(split(line), LAMBDA parts :
         IF Len(parts) >= 3
         THEN With(FloatOf(parts[2]), LAMBDA base :
              With(FloatOf(parts[3]), LAMBDA quota :
              IF base.exc = "ValueError" \/ quota.exc = "ValueError"
              THEN acc
              ELSE [acc EXCEPT !.ticket.iva_breakdown =
                        DictSet(@, parts[1],
                                [base |-> base.value, cuota |-> quota.value])]))
         ELSE acc)
    ELSE acc)

_parse_iva(t, ls) ==
    With(FoldLines(IvaLine,
                   [exc |-> "none", ticket |-> t, iva_section |-> FALSE],
                   ls, 1), LAMBDA r :
    [exc |-> r.exc, ticket |-> r.ticket])

_parse_payment_method(t, ls) ==
    With(First(LAMBDA i : \/ Contains("TARJETA BANCARIA", ls[i])
                          \/ Contains("EFECTIVO", ls[i]),
               1, Len(ls)), LAMBDA hit :
    IF hit = 0 THEN [exc |-> "none", ticket |-> t]
    ELSE [exc |-> "none",
          ticket |-> [t EXCEPT !.payment_method =
              IF Contains("TARJETA BANCARIA", ls[hit])
              THEN "TARJETA BANCARIA" ELSE "EFECTIVO"]])

(***************************************************************************)
(* models/ticket.py and storage/postgresql.py: the validator               *)
(***************************************************************************)
\* sum(product.total_price for product in self.products), the first n items
RECURSIVE SumPrices(_, _)
SumPrices(products, n) ==
    IF n = 0 THEN FZero
    ELSE FAdd(SumPrices(products, n - 1), products[n].total_price)

products_total(t) == SumPrices(t.products, Len(t.products))

\* abs(self.products_total - self.total) <= 0.5
is_total_consistent(t) ==
    FLe(FAbs(FSub(products_total(t), t.total)), Cents(50))

\* one entry of errors: the message and, for a per-item message, the
\* 1-based number of the item it is formatted with (0 otherwise)
Reason(text, item) == [text |-> text, item |-> item]

\* errors.append(text) when failed
AppendIf(failed, text, item) ==
    IF failed THEN <<Reason(text, item)>> ELSE <<>>

\* for i, p in enumerate(ticket.products): ...
RECURSIVE ProductErrors(_, _)
ProductErrors(products, i) ==
    IF i > Len(products) THEN <<>>
    ELSE AppendIf(products[i].description = "", "Producto sin descripcion", i)
         \o AppendIf(FLe(products[i].total_price, FZero),
                     "Producto con precio invalido", i)
         \o ProductErrors(products, i + 1)

\* returns (is_valid, errors)
validate_ticket(t) ==
    With(AppendIf(FIsZero(t.total) \/ FLe(t.total, FZero),
                  "Total invalido o cero", 0)
         \o AppendIf(Len(t.products) = 0, "Sin productos", 0)
         \o AppendIf(t.date = None, "Sin fecha", 0)
         \o AppendIf(t.invoice_number = "", "Sin numero de factura", 0)
         \o AppendIf(~is_total_consistent(t),
                     "Suma de productos no coincide con total", 0)
         \o ProductErrors(t.products, 1),
         LAMBDA errors :
    [is_valid |-> Len(errors) = 0, errors |-> errors])

(***************************************************************************)
(* storage/postgresql.py: save_ticket and get_ticket_by_id.  A table is    *)
(* the sequence of its rows in insertion order; a SERIAL column takes the  *)
(* next value of its sequence, which is consumed by every INSERT that is   *)
(* attempted, also one that ends in a conflict or is rolled back.  The     *)
(* tickets given to the store have no VAT breakdown: the six iva columns   *)
(* stay NULL and are read back as an empty dict.                           *)
(***************************************************************************)
\* the tables after create_tables
EmptyDb ==
    [tiendas |-> <<>>, tickets |-> <<>>, productos |-> <<>>,
     processing_log |-> <<>>,
     tiendas_id_seq |-> 0, tickets_id_seq |-> 0, productos_id_seq |-> 0,
     processing_log_id_seq |-> 0, now |-> 0]

\* a column that rounds to whole units instead of hundredths
Numeric0(x) == 100 * ((x.c + 50) \div 100)

\* a float bound to a DECIMAL(10,2) column: psycopg2 sends its repr and the
\* column keeps the nearest hundredth
Numeric2(x) == x.c

\* float(value) of a DECIMAL(10,2) column holding n hundredths
FromNumeric2(n) == Cents(n)

\* the text bound to a TIME column: "HH:MM" is accepted, "" is not
TimeInput(s) ==
    IF /\ Len(s) = 5 /\ Ch(s, 3) = ":"
       /\ AllDigits(SubSeq(s, 1, 2)) /\ AllDigits(SubSeq(s, 4, 5))
       /\ ToNat(SubSeq(s, 1, 2)) < 24 /\ ToNat(SubSeq(s, 4, 5)) < 60
    THEN Some(s \o ":00") ELSE None

\* the indices of the rows of table that satisfy P
RowsWhere(table, P(_)) == {i \in 1..Len(table) : P(table[i])}

\* INSERT INTO tiendas ... ON CONFLICT (cif) DO UPDATE ... RETURNING id
_insert_or_get_store(d, t) ==
    With(RowsWhere(d.tiendas, LAMBDA row : row.cif = t.cif), LAMBDA same :
    With(d.tiendas_id_seq + 1, LAMBDA id :
    IF Len(t.store_name) > 200 \/ Len(t.cif) > 20
    THEN [exc |-> "DataError", id |-> 0,
          db |-> [d EXCEPT !.tiendas_id_seq = id]]
    ELSE IF same = {}
    THEN [exc |-> "none", id |-> id,
          db |-> [d EXCEPT !.tiendas_id_seq = id,
                           !.tiendas = Append(@, [id |-> id,
                                                  nombre |-> t.store_name,
                                                  cif |-> t.cif,
                                                  direccion |-> t.address,
                                                  codigo_postal |-> t.postal_code,
                                                  ciudad |-> t.city,
                                                  telefono |-> t.phone])]]
    ELSE [exc |-> "none", id |-> d.tiendas[SetMin(same)].id,
          db |-> [d EXCEPT !.tiendas_id_seq = id,
                           !.tiendas[SetMin(same)] =
                               [@ EXCEPT !.direccion = t.address,
                                         !.codigo_postal = t.postal_code,
                                         !.ciudad = t.city,
                                         !.telefono = t.phone]]]))

\* INSERT INTO tickets ... ON CONFLICT (numero_factura) DO NOTHING RETURNING
\* id, then the SELECT of the existing id when nothing was inserted
_insert_ticket(d, t, tienda_id) ==
    With(RowsWhere(d.tickets, LAMBDA row : row.numero_factura = t.invoice_number), LAMBDA same :
    With(d.tickets_id_seq + 1, LAMBDA id :
    IF \/ t.date = None \/ TimeInput(t.time) = None
       \/ Len(t.invoice_number) > 50 \/ Len(t.order_number) > 50
    THEN [exc |-> "DataError", id |-> 0, is_duplicate |-> FALSE,
          db |-> [d EXCEPT !.tickets_id_seq = id]]
    ELSE IF same # {}
    THEN [exc |-> "none", id |-> d.tickets[SetMin(same)].id, is_duplicate |-> TRUE,
          db |-> [d EXCEPT !.tickets_id_seq = id]]
    ELSE [exc |-> "none", id |-> id, is_duplicate |-> FALSE,
          db |-> [d EXCEPT !.tickets_id_seq = id,
                           !.tickets = Append(@, [id |-> id,
                                                  tienda_id |-> tienda_id,
                                                  numero_pedido |-> t.order_number,
                                                  numero_factura |-> t.invoice_number,
                                                  fecha_compra |-> t.date[1],
                                                  hora_compra |-> TimeInput(t.time)[1],
                                                  total |-> Numeric2(t.total),
                                                  metodo_pago |-> t.payment_method])]]))

\* the row execute_values inserts for product p
ProductRow(id, ticket_id, p) ==
    [id |-> id, ticket_id |-> ticket_id, cantidad |-> p.quantity,
     descripcion |-> p.description,
     precio_unitario |-> IF p.unit_price = None THEN None
                         ELSE Some(Numeric2(p.unit_price[1])),
     precio_total |-> Numeric2(p.total_price),
     peso |-> p.weight]

\* execute_values(cursor, "INSERT INTO productos ... VALUES %s", ...)
_insert_products(d, t, ticket_id) ==
    With(Len(t.products), LAMBDA n :
    IF \E j \in 1..n : Len(t.products[j].description) > 200
    THEN [exc |-> "DataError", db |-> [d EXCEPT !.productos_id_seq = @ + n]]
    ELSE [exc |-> "none",
          db |-> [d EXCEPT !.productos_id_seq = @ + n,
                           !.productos = @ \o
                               [j \in 1..n |->
                                   ProductRow(d.productos_id_seq + j, ticket_id,
                                              t.products[j])]]])

\* get_connection rolls the transaction back: the rows are those of before,
\* the sequences keep their values
Rollback(before, after) ==
    [before EXCEPT !.tiendas_id_seq = after.tiendas_id_seq,
                   !.tickets_id_seq = after.tickets_id_seq,
                   !.productos_id_seq = after.productos_id_seq]

Failed(exc, before, after) ==
    [exc |-> exc, value |-> 0, db |-> Rollback(before, after)]

\* save_ticket(t): [exc, value, db] with the id returned and the tables
\* after the call
save_ticket(d, t) ==
    IF ~validate_ticket(t).is_valid
    THEN [exc |-> "ValueError", value |-> 0, db |-> d]
    ELSE
    With(_insert_or_get_store(d, t), LAMBDA store :
    IF store.exc # "none" THEN Failed(store.exc, d, store.db)
    ELSE
    With(_insert_ticket(store.db, t, store.id), LAMBDA inserted :
    IF inserted.exc # "none" THEN Failed(inserted.exc, d, inserted.db)
    ELSE IF inserted.is_duplicate
    THEN [exc |-> "none", value |-> inserted.id, db |-> inserted.db]
    ELSE
    With(_insert_products(inserted.db, t, inserted.id), LAMBDA products :
    IF products.exc # "none" THEN Failed(products.exc, d, products.db)
    ELSE [exc |-> "none", value |-> inserted.id, db |-> products.db])))

\* Product(...) of one row of productos
ProductOfRow(row) ==
    Product(row.cantidad, row.descripcion,
            Some(IF row.precio_unitario = None \/ row.precio_unitario = Some(0)
                 THEN FZero ELSE FromNumeric2(row.precio_unitario[1])),
            FromNumeric2(row.precio_total),
            row.peso)

\* the Product of every row, or the first ValueError
RECURSIVE ProductsOfRows(_, _)
ProductsOfRows(rows, n) ==
    IF n = 0 THEN [exc |-> "none", value |-> <<>>]
    ELSE
    With(ProductsOfRows(rows, n - 1), LAMBDA before :
    IF before.exc # "none" THEN before
    ELSE
    With(ProductOfRow(rows[n]), LAMBDA made :
    IF made.exc # "none" THEN [exc |-> made.exc, value |-> <<>>]
    ELSE [exc |-> "none", value |-> Append(before.value, made.value[1])]))

OrDefault(text, default) == IF text = "" THEN default ELSE text

\* get_ticket_by_id(ticket_id): [exc, value] with value None when no t
\* has the id.  fecha_compra comes back as the date of the datetime stored.
get_ticket_by_id(d, ticket_id) ==
    With(RowsWhere(d.tickets, LAMBDA row : row.id = ticket_id), LAMBDA found :
    IF found = {} THEN [exc |-> "none", value |-> None]
    ELSE
    With(d.tickets[SetMin(found)], LAMBDA ticket_dict :
    With(RowsWhere(d.tiendas, LAMBDA row : row.id = ticket_dict.tienda_id), LAMBDA stores :
    With(SelectSeq(d.productos, LAMBDA row : row.ticket_id = ticket_id), LAMBDA product_rows :
    With(ProductsOfRows(product_rows, Len(product_rows)), LAMBDA products :
    IF products.exc # "none" THEN [exc |-> products.exc, value |-> None]
    ELSE
    With(d.tiendas[SetMin(stores)], LAMBDA ti :
    TicketData([store_name |-> OrDefault(ti.nombre, "Mercadona"),
                cif |-> OrDefault(ti.cif, "A46103834"),
                address |-> ti.direccion,
                postal_code |-> ti.codigo_postal,
                city |-> ti.ciudad,
                phone |-> ti.telefono,
                date |-> Some(ticket_dict.fecha_compra),
                time |-> ticket_dict.hora_compra,
                order_number |-> ticket_dict.numero_pedido,
                invoice_number |-> ticket_dict.numero_factura,
                products |-> products.value,
                total |-> FromNumeric2(ticket_dict.total),
                payment_method |-> ticket_dict.metodo_pago,
                iva_breakdown |-> NoDict])))))))

(***************************************************************************)
(* processors/product_matcher.py                                           *)
(***************************************************************************)
\* A confidence is carried as the exact fraction num/den whose nearest
\* double the code computes; a comparison with a threshold gives the same
\* answer on the fractions as on the doubles.
Frac(n, d) == [num |-> n, den |-> d]
FracGe(x, y) == x.num * y.den >= y.num * x.den
FracMin(x, y) == IF FracGe(x, y) THEN y ELSE x
FracMax(x, y) == IF FracGe(x, y) THEN x ELSE y

EXACT_MATCH_THRESHOLD == Frac(1, 1)
FUZZY_MATCH_THRESHOLD == Frac(8, 10)
\* a keyword threshold set below the documented 0.6
KEYWORD_MATCH_THRESHOLD_low == Frac(5, 10)
KEYWORD_MATCH_THRESHOLD == Frac(6, 10)
PRICE_MATCH_THRESHOLD == Frac(7, 10)

MatchResult(categoria_id, subcategoria_id, categoria_nombre, subcategoria_nombre, confidence, match_type, match_details) ==
    [categoria_id |-> categoria_id,
     subcategoria_id |-> subcategoria_id,
     categoria_nombre |-> categoria_nombre,
     subcategoria_nombre |-> subcategoria_nombre,
     confidence |-> confidence,
     match_type |-> match_type,
     match_details |-> match_details]

\* MatchResult(categoria_id=None, subcategoria_id=None)
NoResult == MatchResult(None, None, None, None, Frac(0, 1), "none", None)

\* the MatchResult a tier builds from the row it selected
RowResult(row, confidence, match_type, match_details) ==
    MatchResult(Some(row.categoria_id), row.subcategoria_id,
                Some(row.categoria_nombre), row.subcategoria_nombre,
                confidence, match_type, Some(match_details))

RECURSIVE FilterStr(_, _)
FilterStr(P(_), s) ==
    IF Len(s) = 0 THEN ""
    ELSE (IF P(Ch(s, 1)) THEN Ch(s, 1) ELSE "")
         \o FilterStr(P, SubSeq(s, 2, Len(s)))

\* re.sub(r'\s+', ' ', s) from position i on
RECURSIVE CollapseFrom(_, _)
CollapseFrom(s, i) ==
    IF i > Len(s) THEN ""
    ELSE IF IsSpace(Ch(s, i))
    THEN " " \o CollapseFrom(s, RunEnd(s, i, IsSpace) + 1)
    ELSE Ch(s, i) \o CollapseFrom(s, i + 1)

_clean_product_name(name) ==
    IF name = "" THEN ""
    ELSE CollapseFrom(FilterStr(LAMBDA ch : IsWordChar(ch) \/ IsSpace(ch),
                                strip(lower(name))), 1)

\* SQL LOWER(TRIM(s)): TRIM removes the leading and trailing spaces
LowerTrim(s) ==
    With(First(LAMBDA i : Ch(s, i) # " ", 1, Len(s)), LAMBDA b :
    IF b = 0 THEN ""
    ELSE lower(SubSeq(s, b, Last(LAMBDA i : Ch(s, i) # " ", 1, Len(s)))))

\* A query of the catalogue gives the rows in an order the database chooses,
\* so a tier returns the set of the results it can give.  self.fails holds
\* the tiers whose get_connection() or execute() raises.
_exact_match(self, product_name) ==
    IF "exact" \in self.fails THEN {NoResult}
    ELSE
    With({row \in self.catalog : LowerTrim(row.display_name) = product_name},
         LAMBDA rows :
    IF rows = {} THEN {NoResult}
    ELSE {RowResult(row, Frac(1, 1), "exact", "Coincidencia exacta por nombre")
             : row \in rows})

\* length of the common run of a from i and b from j
RECURSIVE CommonRun(_, _, _, _)
CommonRun(a, b, i, j) ==
    IF i > Len(a) \/ j > Len(b) \/ Ch(a, i) # Ch(b, j) THEN 0
    ELSE 1 + CommonRun(a, b, i + 1, j + 1)

\* SequenceMatcher.find_longest_match over the whole of a and b: the longest
\* common block; of those the one that starts earliest in a, then in b
find_longest_match(a, b) ==
    With([p \in (1..Len(a)) \X (1..Len(b)) |-> CommonRun(a, b, p[1], p[2])],
         LAMBDA run :
    With(SetMax({run[p] : p \in DOMAIN run}), LAMBDA k :
    With(SetMin({p[1] : p \in {x \in DOMAIN run : run[x] = k}}), LAMBDA i :
    [i |-> i,
     j |-> SetMin({p[2] : p \in {x \in DOMAIN run : run[x] = k /\ x[1] = i}}),
     k |-> k])))

\* the total size of SequenceMatcher.get_matching_blocks()
RECURSIVE MatchingSize(_, _)
MatchingSize(a, b) ==
    IF Len(a) = 0 \/ Len(b) = 0 THEN 0
    ELSE With(find_longest_match(a, b), LAMBDA m :
         IF m.k = 0 THEN 0
         ELSE m.k
              + MatchingSize(SubSeq(a, 1, m.i - 1), SubSeq(b, 1, m.j - 1))
              + MatchingSize(SubSeq(a, m.i + m.k, Len(a)),
                             SubSeq(b, m.j + m.k, Len(b))))

\* difflib.SequenceMatcher(None, a, b).ratio()
ratio(a, b) ==
    IF Len(a) + Len(b) = 0 THEN Frac(1, 1)
    ELSE Frac(2 * MatchingSize(a, b), Len(a) + Len(b))

\* a slip of the fuzzy tier: the catalogue name is compared as stored,
\* lower-cased only
_fuzzy_match_raw(self, product_name) ==
    IF "fuzzy" \in self.fails THEN {NoResult}
    ELSE
    With([row \in self.catalog |-> ratio(product_name, lower(row.display_name))],
         LAMBDA ratios :
    With({row \in self.catalog :
             /\ ratios[row].num > 0
             /\ \A other \in self.catalog : FracGe(ratios[row], ratios[other])},
         LAMBDA best :
    IF \E row \in best : FracGe(ratios[row], Frac(8, 10))
    THEN {RowResult(row, ratios[row], "fuzzy",
                    "Similitud con " \o row.display_name) : row \in best}
    ELSE {NoResult}))

_fuzzy_match(self, product_name) ==
    IF "fuzzy" \in self.fails THEN {NoResult}
    ELSE
    With([row \in self.catalog |->
             ratio(product_name, _clean_product_name(row.display_name))],
         LAMBDA ratios :
    With({row \in self.catalog :
             /\ ratios[row].num > 0
             /\ \A other \in self.catalog : FracGe(ratios[row], ratios[other])},
         LAMBDA best :
    IF \E row \in best : FracGe(ratios[row], Frac(8, 10))
    THEN {RowResult(row, ratios[row], "fuzzy",
                    "Similitud con " \o row.display_name) : row \in best}
    ELSE {NoResult}))

\* the rows of the GROUP BY group of row
GroupOf(rows, row) ==
    {other \in rows :
        /\ other.categoria_id = row.categoria_id
        /\ other.subcategoria_id = row.subcategoria_id
        /\ other.categoria_nombre = row.categoria_nombre
        /\ other.subcategoria_nombre = row.subcategoria_nombre
        /\ other.display_name = row.display_name}

_keyword_match(self, product_name) ==
    With(SelectSeq(split(product_name), LAMBDA w : Len(w) > 3),
         LAMBDA significant_words :
    IF Len(significant_words) = 0 THEN {NoResult}
    ELSE IF "keyword" \in self.fails THEN {NoResult}
    ELSE
    With({row \in self.catalog :
             \E k \in 1..Len(significant_words) :
                 Contains(significant_words[k], lower(row.display_name))},
         LAMBDA rows :
    With([row \in rows |-> Cardinality(GroupOf(rows, row))], LAMBDA matches :
    With({row \in rows :
             \A other \in rows :
                 \/ matches[row] > matches[other]
                 \/ /\ matches[row] = matches[other]
                    /\ row.categoria_id <= other.categoria_id},
         LAMBDA first :
    IF first = {} THEN {NoResult}
    ELSE {RowResult(row,
                    FracMin(Frac(9, 10),
                            Frac(matches[row], Len(significant_words))),
                    "keyword", "Coincidencia por palabras clave")
             : row \in first}))))

\* |x|
Abs(x) == IF x < 0 THEN 0 - x ELSE x

\* price_margin = 0.2
price_margin == Cents(20)

\* price is the double nearest to price hundredths and unit_price a numeric
\* of the catalogue, in hundredths.  The bounds of BETWEEN are the doubles
\* price * (1 - price_margin) and price * (1 + price_margin); the database
\* compares unit_price with the shortest decimals that denote them, which
\* orders them as the doubles are ordered.
_price_match(self, product_name, price) ==
    IF "price" \in self.fails THEN {NoResult}
    ELSE
    With({row \in self.catalog :
             /\ row.unit_price # None
             /\ AtLeastProduct(row.unit_price[1], Cents(price),
                               FSub(Cents(100), price_margin))
             /\ AtMostProduct(row.unit_price[1], Cents(price),
                              FAdd(Cents(100), price_margin))},
         LAMBDA rows :
    With({row \in rows :
             \A other \in rows :
                 Abs(row.unit_price[1] - price)
                     <= Abs(other.unit_price[1] - price)},
         LAMBDA closest :
    IF closest = {} \/ price = 0 THEN {NoResult}
    ELSE {RowResult(row,
                    FracMax(Frac(1, 2),
                            Frac(price - Abs(row.unit_price[1] - price), price)),
                    "price", "Coincidencia por precio")
             : row \in closest}))

\* the result returned when no tier accepts
NoMatch(product_name) ==
    MatchResult(None, None, None, None, Frac(0, 1), "no_match",
                Some("No se encontro categoria para: " \o product_name))

\* "return result" after "if result.confidence >= threshold", with the
\* tiers called so far
Returned(results, threshold, attempted) ==
    {[result |-> r, attempted |-> attempted] :
        r \in {x \in results : FracGe(x.confidence, threshold)}}

\* the test "result.confidence >= threshold" can fail
Refused(results, threshold) ==
    \E x \in results : ~FracGe(x.confidence, threshold)

\* a slip of the cascade: the keyword tier is asked before the fuzzy tier
categorize_product_keyword_first(self, product_name, price) ==
    With(_clean_product_name(product_name), LAMBDA clean_name :
    With(_exact_match(self, clean_name), LAMBDA exact :
    Returned(exact, EXACT_MATCH_THRESHOLD, <<"exact">>)
    \cup
    IF ~Refused(exact, EXACT_MATCH_THRESHOLD) THEN {}
    ELSE
    With(_keyword_match(self, clean_name), LAMBDA keyword :
    Returned(keyword, KEYWORD_MATCH_THRESHOLD, <<"exact", "keyword">>)
    \cup
    IF ~Refused(keyword, KEYWORD_MATCH_THRESHOLD) THEN {}
    ELSE
    With(_fuzzy_match(self, clean_name), LAMBDA fuzzy :
    Returned(fuzzy, FUZZY_MATCH_THRESHOLD, <<"exact", "keyword", "fuzzy">>)
    \cup
    IF ~Refused(fuzzy, FUZZY_MATCH_THRESHOLD) THEN {}
    ELSE IF price = None
    THEN {[result |-> NoMatch(product_name),
           attempted |-> <<"exact", "keyword", "fuzzy">>]}
    ELSE
    With(_price_match(self, clean_name, price[1]), LAMBDA by_price :
    Returned(by_price, PRICE_MATCH_THRESHOLD,
             <<"exact", "keyword", "fuzzy", "price">>)
    \cup
    IF ~Refused(by_price, PRICE_MATCH_THRESHOLD) THEN {}
    ELSE {[result |-> NoMatch(product_name),
           attempted |-> <<"exact", "keyword", "fuzzy", "price">>]})))))

\* The set of the outcomes of one call: the MatchResult returned and the
\* tiers that were called, in the order of the calls.
categorize_product(self, product_name, price) ==
    With(_clean_product_name(product_name), LAMBDA clean_name :
    With(_exact_match(self, clean_name), LAMBDA exact :
    Returned(exact, EXACT_MATCH_THRESHOLD, <<"exact">>)
    \cup
    IF ~Refused(exact, EXACT_MATCH_THRESHOLD) THEN {}
    ELSE
    With(_fuzzy_match(self, clean_name), LAMBDA fuzzy :
    Returned(fuzzy, FUZZY_MATCH_THRESHOLD, <<"exact", "fuzzy">>)
    \cup
    IF ~Refused(fuzzy, FUZZY_MATCH_THRESHOLD) THEN {}
    ELSE
    With(_keyword_match(self, clean_name), LAMBDA keyword :
    Returned(keyword, KEYWORD_MATCH_THRESHOLD, <<"exact", "fuzzy", "keyword">>)
    \cup
    IF ~Refused(keyword, KEYWORD_MATCH_THRESHOLD) THEN {}
    ELSE IF price = None
    THEN {[result |-> NoMatch(product_name),
           attempted |-> <<"exact", "fuzzy", "keyword">>]}
    ELSE
    With(_price_match(self, clean_name, price[1]), LAMBDA by_price :
    Returned(by_price, PRICE_MATCH_THRESHOLD,
             <<"exact", "fuzzy", "keyword", "price">>)
    \cup
    IF ~Refused(by_price, PRICE_MATCH_THRESHOLD) THEN {}
    ELSE {[result |-> NoMatch(product_name),
           attempted |-> <<"exact", "fuzzy", "keyword", "price">>]})))))

(***************************************************************************)
(* storage/postgresql.py: the table processing_log                         *)
(***************************************************************************)
\* ProcessingConfig.max_retries
max_retries == 3

\* INSERT INTO processing_log ... VALUES (..., 1, NOW(), ...) ON CONFLICT
\* (gmail_message_id) DO UPDATE ... RETURNING id: [exc, value, db].  NOW()
\* is the next tick of d.now.
start_processing(d, message_id, pdf_filename, pdf_hash, pdf_path) ==
    With(RowsWhere(d.processing_log, LAMBDA row : row.gmail_message_id = message_id), LAMBDA same :
    With([d EXCEPT !.processing_log_id_seq = @ + 1, !.now = @ + 1], LAMBDA e :
    IF same = {}
    THEN [exc |-> "none", value |-> e.processing_log_id_seq,
          db |-> [e EXCEPT !.processing_log =
                     Append(@, [id |-> e.processing_log_id_seq,
                                gmail_message_id |-> message_id,
                                pdf_filename |-> pdf_filename,
                                pdf_hash |-> pdf_hash,
                                status |-> "pending",
                                attempts |-> 1,
                                last_attempt |-> e.now,
                                error_stage |-> None,
                                error_message |-> None,
                                pdf_path |-> pdf_path,
                                extracted_text_path |-> None,
                                ticket_id |-> None,
                                completed_at |-> None])]]
    ELSE [exc |-> "none", value |-> d.processing_log[SetMin(same)].id,
          db |-> [e EXCEPT !.processing_log[SetMin(same)] =
                     [@ EXCEPT !.attempts = @ + 1,
                               !.last_attempt = e.now,
                               !.status = "pending"]]]))

\* UPDATE processing_log SET status, error_stage, error_message, ticket_id,
\* extracted_text_path, completed_at WHERE id = processing_id: [exc, db];
\* ticket_id references tickets(id)
update_processing_status(d, processing_id, status, error_stage, error_message, ticket_id, extracted_text_path) ==
    With(RowsWhere(d.processing_log, LAMBDA row : row.id = processing_id), LAMBDA rows :
    IF /\ rows # {}
       /\ ticket_id # None
       /\ RowsWhere(d.tickets, LAMBDA row : row.id = ticket_id[1]) = {}
    THEN [exc |-> "IntegrityError", db |-> d]
    ELSE [exc |-> "none",
          db |-> [d EXCEPT !.processing_log =
                     [i \in 1..Len(@) |->
                         IF i \notin rows THEN @[i]
                         ELSE [@[i] EXCEPT !.status = status,
                                           !.error_stage = error_stage,
                                           !.error_message = error_message,
                                           !.ticket_id = ticket_id,
                                           !.extracted_text_path = extracted_text_path,
                                           !.completed_at =
                                               IF status = "completed"
                                               THEN Some("now") ELSE None]]]])

\* the rows of a set of rows as dicts, ORDER BY last_attempt DESC
RECURSIVE ByLastAttemptDesc(_)
ByLastAttemptDesc(rows) ==
    IF rows = {} THEN <<>>
    ELSE With(CHOOSE row \in rows : \A other \in rows : row.last_attempt >= other.last_attempt, LAMBDA row :
         <<[id |-> row.id, message_id |-> row.gmail_message_id,
            pdf_filename |-> row.pdf_filename, pdf_path |-> row.pdf_path,
            attempts |-> row.attempts, error_message |-> row.error_message]>>
         \o ByLastAttemptDesc(rows \ {row}))

\* SELECT ... WHERE status IN ('failed', 'retry') AND attempts < max_attempts
\* ORDER BY last_attempt DESC
get_failed_processings(d, max_attempts) ==
    ByLastAttemptDesc({d.processing_log[i] :
        i \in RowsWhere(d.processing_log, LAMBDA row :
                  /\ row.status \in {"failed", "retry"}
                  /\ row.attempts < max_attempts)})

(***************************************************************************)
(* processors/gmail_processor.py                                           *)
(***************************************************************************)
ZeroStats ==
    [correos_encontrados |-> 0, pdfs_descargados |-> 0,
     tickets_procesados |-> 0, tickets_guardados |-> 0,
     tickets_duplicados |-> 0, tickets_invalidos |-> 0,
     tickets_descartados |-> 0, reintentos_exitosos |-> 0,
     errores |-> 0, errores_detalle |-> <<>>]

\* str(e) of the exceptions the storage raises
ErrorText(exc) ==
    CASE exc = "TypeError" -> "save_ticket() takes 2 positional arguments but 3 were given"
      [] exc = "ValueError" -> "Ticket invalido"
      [] exc = "DataError" -> "invalid input syntax for type time"
      [] OTHER -> exc

\* 'duplicate' in error_str.lower() or 'already exists' in error_str.lower()
IsDuplicateError(error_str) ==
    \/ Contains("duplicate", lower(error_str))
    \/ Contains("already exists", lower(error_str))

\* self.storage.save_ticket(ticket, subscriptor_email): the arguments are
\* bound to the one parameter of save_ticket
Call_save_ticket(d, args) ==
    IF Len(args) # 1 THEN [exc |-> "TypeError", value |-> 0, db |-> d]
    ELSE save_ticket(d, args[1])

\* self.storage.start_processing(message_id, filename, pdf_hash, pdf_path,
\* sender_email): the arguments are bound to the four parameters
Call_start_processing(d, args) ==
    IF Len(args) # 4 THEN [exc |-> "TypeError", value |-> 0, db |-> d]
    ELSE start_processing(d, args[1], args[2], args[3], args[4])

\* "if processing_id and ...: self.storage.update_processing_status(
\* processing_id, status, extracted_text_path=...)"
Track(d, processing_id, status, extracted_text_path) ==
    IF processing_id = None THEN d
    ELSE update_processing_status(d, processing_id[1], status, None, None, None, extracted_text_path).db

\* [db, result]
_handle_processing_error(d, processing_id, stage, error_msg, result) ==
    [db |-> IF processing_id = None THEN d
            ELSE update_processing_status(d, processing_id[1], "retry", Some(stage), Some(error_msg), None, None).db,
     result |-> [result EXCEPT !.status = "error", !.error = Some(error_msg)]]

\* [db, result]: the database and the result dict after the call.  A pdf is
\* [text_ok, ticket]: whether validate_extracted_text accepts its text and
\* the ticket parse() returns for it.  The rows of file_backups are not kept.
_process_single_pdf(d, pdf, processing_id, subscriptor_email) ==
    With([status |-> "error", error |-> None, ticket_id |-> None], LAMBDA result :
    With(Track(d, processing_id, "extracting", None), LAMBDA d1 :
    IF ~pdf.text_ok
    THEN _handle_processing_error(d1, processing_id, "extraction", "Texto extraido insuficiente o invalido", result)
    ELSE
    With(Track(d1, processing_id, "extracting", Some("text_path")), LAMBDA d2 :
    With(Track(Track(d2, processing_id, "parsing", None), processing_id, "validating", None), LAMBDA d3 :
    IF ~validate_ticket(pdf.ticket).is_valid
    THEN With(_handle_processing_error(d3, processing_id, "validation", "Ticket invalido", result), LAMBDA handled :
         [db |-> handled.db, result |-> [handled.result EXCEPT !.status = "invalid"]])
    ELSE
    With(Call_save_ticket(Track(d3, processing_id, "saving", None), <<pdf.ticket, subscriptor_email>>), LAMBDA saved :
    IF saved.exc = "none"
    THEN [db |-> IF processing_id = None THEN saved.db
                 ELSE update_processing_status(saved.db, processing_id[1], "completed", None, None, Some(saved.value), None).db,
          result |-> [result EXCEPT !.status = "success", !.ticket_id = Some(saved.value)]]
    ELSE IF IsDuplicateError(ErrorText(saved.exc))
    THEN [db |-> IF processing_id = None THEN saved.db
                 ELSE update_processing_status(saved.db, processing_id[1], "completed", None, Some("Duplicado"), None, None).db,
          result |-> [result EXCEPT !.status = "duplicate"]]
    ELSE _handle_processing_error(saved.db, processing_id, "processing", ErrorText(saved.exc), result))))))

_update_stats_from_result(result, stats, filename) ==
    CASE result.status = "success" ->
            [stats EXCEPT !.tickets_procesados = @ + 1, !.tickets_guardados = @ + 1]
      [] result.status = "duplicate" -> [stats EXCEPT !.tickets_duplicados = @ + 1]
      [] result.status = "invalid" -> [stats EXCEPT !.tickets_invalidos = @ + 1]
      [] result.status = "error" ->
            [stats EXCEPT !.errores = @ + 1,
                          !.errores_detalle = Append(@, [file |-> filename, error |-> result.error])]
      [] OTHER -> stats

\* what one attempt on a pdf was given and gave: whether the invoice number
\* of its ticket was stored before, the result, and the row of processing_log
\* after it
Attempt(via, processing_id, pdf, before, done) ==
    [via |-> via, processing_id |-> processing_id, pdf |-> pdf,
     stored |-> /\ pdf.text_ok
                /\ RowsWhere(before.tickets, LAMBDA row : row.numero_factura = pdf.ticket.invoice_number) # {},
     result |-> done.result,
     row |-> IF processing_id = None THEN None
             ELSE With(RowsWhere(done.db.processing_log, LAMBDA row : row.id = processing_id[1]), LAMBDA rows :
                  IF rows = {} THEN None ELSE Some(done.db.processing_log[SetMin(rows)]))]

\* the loop of _retry_failed_tickets from failed[k] on; st is [db, stats,
\* log]; lookups[id] is what get_subscriptor_email_by_processing_id(id)
\* gives, an email or the AttributeError of a storage without that method
RECURSIVE RetryFrom(_, _, _, _)
RetryFrom(st, failed, k, lookups) ==
    IF k > Len(failed) THEN st
    ELSE
    With(failed[k], LAMBDA f :
    IF lookups[f.id] = "AttributeError"
    THEN RetryFrom([st EXCEPT !.stats.errores = @ + 1,
                              !.stats.errores_detalle = Append(@, [retry_error |-> "AttributeError"]),
                              !.log = Append(@, Attempt("retry", Some(f.id), f.pdf_path, st.db,
                                                        [db |-> st.db, result |-> [status |-> "raised", error |-> Some("AttributeError"), ticket_id |-> None]]))],
                   failed, k + 1, lookups)
    ELSE
    With(_process_single_pdf(st.db, f.pdf_path, Some(f.id), lookups[f.id]), LAMBDA done :
    RetryFrom([db |-> done.db,
               stats |-> IF done.result.status = "success"
                         THEN [st.stats EXCEPT !.reintentos_exitosos = @ + 1]
                         ELSE st.stats,
               log |-> Append(st.log, Attempt("retry", Some(f.id), f.pdf_path, st.db, done))],
              failed, k + 1, lookups)))

_retry_failed_tickets(st, lookups) ==
    RetryFrom(st, get_failed_processings(st.db, max_retries), 1, lookups)

\* s.endswith(suffix)
endswith(s, suffix) ==
    Len(s) >= Len(suffix) /\ SubSeq(s, Len(s) - Len(suffix) + 1, Len(s)) = suffix

\* the loop over the PDFs of one email from filtered[k] on: [exc, st]
RECURSIVE AttachmentsFrom(_, _, _, _)
AttachmentsFrom(st, msg, filtered, k) ==
    IF k > Len(filtered) THEN [exc |-> "none", st |-> st]
    ELSE
    With(filtered[k], LAMBDA attachment :
    With(Call_start_processing(st.db, <<msg.id, attachment.filename, attachment.content, attachment.content, msg.sender_email>>), LAMBDA started :
    IF started.exc # "none" THEN [exc |-> started.exc, st |-> [st EXCEPT !.db = started.db]]
    ELSE
    With(_process_single_pdf(started.db, attachment.content, Some(started.value), msg.sender_email), LAMBDA done :
    AttachmentsFrom([db |-> done.db,
                     stats |-> _update_stats_from_result(done.result, st.stats, attachment.filename),
                     log |-> Append(st.log, Attempt("email", Some(started.value), attachment.content, started.db, done))],
                    msg, filtered, k + 1))))

\* [exc, st]; msg.is_subscribed is what is_email_subscribed(sender) gives,
\* "True", "False" or the AttributeError of a storage without that method
_process_single_email(st, msg) ==
    IF msg.is_subscribed = "AttributeError" THEN [exc |-> "AttributeError", st |-> st]
    ELSE IF msg.is_subscribed = "False"
    THEN [exc |-> "none", st |-> [st EXCEPT !.stats.tickets_descartados = @ + 1]]
    ELSE
    With(SelectSeq(msg.attachments, LAMBDA att :
             /\ endswith(lower(att.filename), ".pdf")
             /\ Contains("mercadona", lower(att.filename))), LAMBDA filtered :
    With([st EXCEPT !.stats.pdfs_descargados = @ + Len(filtered)], LAMBDA counted :
    IF Len(filtered) = 0
    THEN [exc |-> "none", st |-> [counted EXCEPT !.stats.tickets_descartados = @ + 1]]
    ELSE AttachmentsFrom(counted, msg, filtered, 1)))

\* the loop of _process_new_emails from messages[k] on
RECURSIVE EmailsFrom(_, _, _)
EmailsFrom(st, messages, k) ==
    IF k > Len(messages) THEN st
    ELSE
    With(_process_single_email(st, messages[k]), LAMBDA done :
    EmailsFrom(IF done.exc = "none" THEN done.st
               ELSE [done.st EXCEPT !.stats.errores = @ + 1,
                                    !.stats.errores_detalle = Append(@, [message_id |-> messages[k].id, error |-> done.exc])],
               messages, k + 1))

_process_new_emails(st, messages) ==
    EmailsFrom([st EXCEPT !.stats.correos_encontrados = Len(messages)], messages, 1)

\* [db, stats, log] after one run on database d with the unread messages
process_all_tickets(d, lookups, messages) ==
    _process_new_emails(_retry_failed_tickets([db |-> d, stats |-> ZeroStats, log |-> <<>>], lookups), messages)

(***************************************************************************)
(* Inputs of the product-line parser                                       *)
(***************************************************************************)
QtyPool == {"2", "1", "0", "-1", "UN"}
DescPool == {"", "LECHE ENTERA", "PAN"}
TailPool == {"", "1,20", "1,20 2,40", "0,00", "1,20 0,00",
             "0,50 kg 1,20", "0,50 kg 1,20 2,40", "2,50$", "3 kg 1,5",
             "0,50kg 1,20", "1,20 0,50 kg"}

MakeLine(q, d, t) ==
    q \o (IF d = "" THEN "" ELSE " " \o d) \o (IF t = "" THEN "" ELSE " " \o t)

LinePool == {MakeLine(q, d, t) : q \in QtyPool, d \in DescPool, t \in TailPool}

ParserIdle ==
    /\ lines = <<>>
    /\ pc = "idle"
    /\ ticket = None
    /\ returned = <<>>
    /\ raised = None

LineIdle == pl_line = "" /\ pl_result = <<"idle">>
ValidatorIdle == v_ticket = None /\ v_result = None
MatcherIdle == m_query = None /\ m_result = None
TicketIdle == t_args = None /\ t_made = None
StoreIdle == db = EmptyDb /\ st_log = <<>> /\ st_got = None
ProcessorIdle == p_stats = None /\ p_log = <<>> /\ p_count = <<>>

InitLine ==
    /\ pl_line \in LinePool
    /\ pl_result = <<"pending">>
    /\ ParserIdle /\ ValidatorIdle /\ MatcherIdle /\ TicketIdle /\ StoreIdle /\ ProcessorIdle

\* one call of _parse_product_line
ParseProductLine ==
    /\ pl_result = <<"pending">>
    /\ pl_result' = <<"done", _parse_product_line(pl_line)>>
    /\ UNCHANGED <<pl_line, parserVars, validatorVars, matcherVars, ticketVars, storeVars, processorVars>>

NextLine == ParseProductLine

SpecLine == InitLine /\ [][NextLine]_vars

(***************************************************************************)
(* MercadonaTicketParser.parse, one action per statement of its try block  *)
(***************************************************************************)
\* texts of at most n lines drawn from pool
Texts(pool, n) == UNION {[1..k -> pool] : k \in 0..n}

\* an exception inside the try block is logged and raised again
Step(r, next) ==
    IF r.exc # "none"
    THEN pc' = "raised" /\ raised' = Some(r.exc) /\ UNCHANGED ticket
    ELSE pc' = next /\ ticket' = Some(r.ticket) /\ UNCHANGED raised

\* a slip of parse(): the ticket of the previous call is filled again
ParseBeginReuse(maxCalls) ==
    /\ pc = "idle"
    /\ Len(returned) < maxCalls
    /\ pc' = "store_info"
    /\ ticket' = IF returned = <<>> THEN Some(EmptyTicket)
                 ELSE Some(returned[Len(returned)])
    /\ UNCHANGED <<lines, returned, raised, lineVars, validatorVars, matcherVars, ticketVars, storeVars, processorVars>>

\* parse() is entered: ticket = TicketData(store_name="", ..., products=[])
ParseBegin(maxCalls) ==
    /\ pc = "idle"
    /\ Len(returned) < maxCalls
    /\ With(TicketData(EmptyTicket), LAMBDA made :
       IF made.exc # "none"
       THEN pc' = "raised" /\ raised' = Some(made.exc) /\ UNCHANGED ticket
       ELSE pc' = "store_info" /\ ticket' = made.value /\ UNCHANGED raised)
    /\ UNCHANGED <<lines, returned, lineVars, validatorVars, matcherVars, ticketVars, storeVars, processorVars>>

ParseStoreInfo ==
    /\ pc = "store_info"
    /\ Step(_parse_store_info(ticket[1], lines), "products")
    /\ UNCHANGED <<lines, returned, lineVars, validatorVars, matcherVars, ticketVars, storeVars, processorVars>>

ParseProducts ==
    /\ pc = "products"
    /\ Step(_parse_products(ticket[1], lines), "total")
    /\ UNCHANGED <<lines, returned, lineVars, validatorVars, matcherVars, ticketVars, storeVars, processorVars>>

ParseTotal ==
    /\ pc = "total"
    /\ Step(_parse_total(ticket[1], lines), "iva")
    /\ UNCHANGED <<lines, returned, lineVars, validatorVars, matcherVars, ticketVars, storeVars, processorVars>>

ParseIva ==
    /\ pc = "iva"
    /\ Step(_parse_iva(ticket[1], lines), "payment_method")
    /\ UNCHANGED <<lines, returned, lineVars, validatorVars, matcherVars, ticketVars, storeVars, processorVars>>

ParsePaymentMethod ==
    /\ pc = "payment_method"
    /\ Step(_parse_payment_method(ticket[1], lines), "return")
    /\ UNCHANGED <<lines, returned, lineVars, validatorVars, matcherVars, ticketVars, storeVars, processorVars>>

\* return ticket
ParseReturn ==
    /\ pc = "return"
    /\ returned' = Append(returned, ticket[1])
    /\ ticket' = None
    /\ pc' = "idle"
    /\ UNCHANGED <<lines, raised, lineVars, validatorVars, matcherVars, ticketVars, storeVars, processorVars>>

ParseSteps ==
    \/ ParseStoreInfo
    \/ ParseProducts
    \/ ParseTotal
    \/ ParseIva
    \/ ParsePaymentMethod
    \/ ParseReturn

InitParser(texts) ==
    /\ lines \in {TicketParserBase(t) : t \in texts}
    /\ pc = "idle"
    /\ ticket = None
    /\ returned = <<>>
    /\ raised = None
    /\ LineIdle /\ ValidatorIdle /\ MatcherIdle /\ TicketIdle /\ StoreIdle /\ ProcessorIdle

(***************************************************************************)
(* Whole receipts: any lines in any order                                  *)
(***************************************************************************)
MaxLines == 3

ParsePool ==
    {"", "Texto que no es un ticket", "MERCADONA, S.A. A-12345678",
     "31/02/2025 14:30", "FACTURA SIMPLIFICADA: 001-123-456",
     "Descripcion Importe", "  2 LECHE ENTERA 1,20 2,40", "0 PAN 2,50",
     "TOTAL 2,40$", "IVA BASE IMPONIBLE CUOTA", "10% 5,05 N/A"}

InitParse == InitParser(Texts(ParsePool, MaxLines))

NextParse == ParseBegin(1) \/ ParseSteps

SpecParse == InitParse /\ [][NextParse]_vars

(***************************************************************************)
(* One parser instance, parse() called repeatedly                          *)
(***************************************************************************)
MaxCalls == 2

RepeatPool ==
    {"01/12/2025 14:30", "FACTURA SIMPLIFICADA: 001-123-456", "123-456-789",
     "Descripcion Importe", "  2 LECHE ENTERA 1,20 2,40", "TOTAL 2,40$",
     "IVA BASE IMPONIBLE CUOTA", "4% 2,40 0,10", "EFECTIVO"}

InitRepeat == InitParser(Texts(RepeatPool, 3))

NextRepeat == ParseBegin(MaxCalls) \/ ParseSteps

SpecRepeat == InitRepeat /\ [][NextRepeat]_vars

(***************************************************************************)
(* Product tables: header, item, malformed and TOTAL lines in any order    *)
(***************************************************************************)
MaxTableLines == 4

TablePool ==
    {"Descripcion Importe", "2 LECHE ENTERA 1,20 2,40", "1 PAN 2,50",
     "1 CAFE 0,00", "PAN 2,50", "TOTAL 4,90$"}

InitTable == InitParser(Texts(TablePool, MaxTableLines))

NextTable == ParseBegin(1) \/ ParseSteps

SpecTable == InitTable /\ [][NextTable]_vars

(***************************************************************************)
(* Item lines: a header followed by lines that Product accepts or rejects  *)
(***************************************************************************)
MaxItemLines == 3

ItemLinePool ==
    {"1 PAN 2,50", "2 LECHE ENTERA 1,20 2,40", "0 PAN 2,50", "-1 PAN 2,50",
     "1 CAFE 0,00", "2 1,20 2,40"}

ItemTexts == {<<"Descripcion Importe">> \o body : body \in Texts(ItemLinePool, MaxItemLines)}

InitItems == InitParser(ItemTexts)

NextItems == ParseBegin(1) \/ ParseSteps

SpecItems == InitItems /\ [][NextItems]_vars

(***************************************************************************)
(* Invoice numbers: invoice lines before and after a product table         *)
(***************************************************************************)
MaxExtra == 2

InvoicePool ==
    {"FACTURA SIMPLIFICADA: 001-002-003", "FACTURA: 987654321",
     "123-456-789", "AUT: 44-55-66"}

TableLines == <<"Descripcion Importe", "1 PAN 2,50", "TOTAL 2,50$">>

InvoiceTexts ==
    {pre \o TableLines \o post :
        pre \in Texts(InvoicePool, MaxExtra), post \in Texts(InvoicePool, MaxExtra)}

InitInvoice == InitParser(InvoiceTexts)

NextInvoice == ParseBegin(1) \/ ParseSteps

SpecInvoice == InitInvoice /\ [][NextInvoice]_vars

(***************************************************************************)
(* TOTAL lines before, inside and after a product table                    *)
(***************************************************************************)
MaxTotalLines == 4

TotalLinePool ==
    {"TOTAL 9,99$", "Descripcion Importe", "1 PAN 2,50", "TOTAL 2,50$",
     "TOTAL 0,00$"}

InitTotal == InitParser(Texts(TotalLinePool, MaxTotalLines))

NextTotal == ParseBegin(1) \/ ParseSteps

SpecTotal == InitTotal /\ [][NextTotal]_vars

(***************************************************************************)
(* Labelled invoice lines: the N# labels, and invoice labels on a line     *)
(* that an earlier branch of the store-info scan also recognises           *)
(***************************************************************************)
MaxLabelLines == 2

LabelPool ==
    {"N# FACTURA: 555-666-777", "N# FAC: 111-222-333", "n# fac: 444",
     "OP: 12345 FACTURA SIMPLIFICADA: 999-888-777",
     "C/ MAYOR 1 FACTURA: 987654321", "FACTURA SIMPLIFICADA: 001-002-003"}

InitLabels == InitParser(Texts(LabelPool, MaxLabelLines))

NextLabels == ParseBegin(1) \/ ParseSteps

SpecLabels == InitLabels /\ [][NextLabels]_vars

(***************************************************************************)
(* Tickets given to validate_ticket.  The fields of Product and TicketData *)
(* are plain attributes: __post_init__ looks at them once, and a caller    *)
(* (the parser itself) assigns them afterwards.                            *)
(***************************************************************************)
Item(description, cents) ==
    [quantity |-> 1, description |-> description, unit_price |-> Cents(cents),
     total_price |-> Cents(cents), weight |-> None]

ItemPool ==
    {Item("PAN", 110), Item("LECHE", 1040), Item("CAFE", 1060),
     Item("", 110), Item("  ", 110), Item("PAN", 0)}

\* at most two items, so that sum() adds the same doubles in every CPython
ItemLists == UNION {[1..k -> ItemPool] : k \in 0..2}

TotalPool == {Cents(0), Cents(60), Cents(1000)}
DatePool == {None, Some([day |-> 1, month |-> 12, year |-> 2025])}
InvoiceNumberPool == {"", "   ", "001-002-003"}

ValidatorTickets ==
    {[EmptyTicket EXCEPT !.total = total, !.date = date,
                         !.invoice_number = invoice_number,
                         !.products = products] :
        total \in TotalPool, date \in DatePool,
        invoice_number \in InvoiceNumberPool, products \in ItemLists}

InitValidate ==
    /\ v_ticket \in {Some(t) : t \in ValidatorTickets}
    /\ v_result = None
    /\ ParserIdle /\ LineIdle /\ MatcherIdle /\ TicketIdle /\ StoreIdle /\ ProcessorIdle

\* one call of validate_ticket
ValidateTicket ==
    /\ v_ticket # None
    /\ v_result = None
    /\ v_result' = Some(validate_ticket(v_ticket[1]))
    /\ UNCHANGED <<v_ticket, parserVars, lineVars, matcherVars, ticketVars, storeVars, processorVars>>

NextValidate == ValidateTicket

SpecValidate == InitValidate /\ [][NextValidate]_vars

(***************************************************************************)
(* Construction of a TicketData by a caller that has the items already,    *)
(* followed by the validation of the instance the constructor gave back.   *)
(***************************************************************************)
\* the items of the pool that Product(...) itself accepts
ConstructedItems ==
    {i \in ItemPool :
        Product(i.quantity, i.description, i.unit_price, i.total_price, i.weight).exc = "none"}

ConstructedLists == UNION {[1..k -> ConstructedItems] : k \in 0..2}

ConstructorArgs ==
    {[EmptyTicket EXCEPT !.total = total, !.date = date,
                         !.invoice_number = invoice_number,
                         !.products = products] :
        total \in TotalPool \cup {FSub(Cents(0), Cents(60))}, date \in DatePool,
        invoice_number \in InvoiceNumberPool, products \in ConstructedLists}

InitConstruct ==
    /\ t_args \in {Some(t) : t \in ConstructorArgs}
    /\ t_made = None
    /\ ParserIdle /\ LineIdle /\ ValidatorIdle /\ MatcherIdle /\ StoreIdle /\ ProcessorIdle

\* TicketData(**t_args)
ConstructTicket ==
    /\ t_args # None
    /\ t_made = None
    /\ t_made' = Some(TicketData(t_args[1]))
    /\ UNCHANGED <<t_args, parserVars, lineVars, validatorVars, matcherVars, storeVars, processorVars>>

\* validate_ticket(ticket) on the instance the constructor returned
ValidateConstructed ==
    /\ t_made # None
    /\ t_made[1].exc = "none"
    /\ v_ticket = None
    /\ v_ticket' = t_made[1].value
    /\ v_result' = Some(validate_ticket(t_made[1].value[1]))
    /\ UNCHANGED <<parserVars, lineVars, matcherVars, ticketVars, storeVars, processorVars>>

NextConstruct == ConstructTicket \/ ValidateConstructed

SpecConstruct == InitConstruct /\ [][NextConstruct]_vars

(***************************************************************************)
(* One empty database, tickets saved one after another and read back       *)
(***************************************************************************)
MaxSaves == 2

Bought(quantity, description, unit, total) ==
    [quantity |-> quantity, description |-> description,
     unit_price |-> Some(Cents(unit)), total_price |-> Cents(total),
     weight |-> None]

Receipt(invoice_number, time, products, total) ==
    [EmptyTicket EXCEPT !.store_name = "MERCADONA, S.A.", !.cif = "A-12345678",
                        !.date = Some([day |-> 1, month |-> 12, year |-> 2025]),
                        !.time = time, !.invoice_number = invoice_number,
                        !.products = products, !.total = total]

\* a first receipt, a different receipt with the same invoice number, a
\* receipt of two items, one without date, one without time, one whose total
\* is the float sum 1.1 + 2.2, one with an item of blank description, and the
\* first receipt without its time
StorePool ==
    {Receipt("001-002-003", "14:30", <<Bought(1, "PAN", 110, 110)>>, Cents(110)),
     Receipt("001-002-003", "09:05", <<Bought(2, "LECHE ENTERA", 120, 240)>>, Cents(240)),
     Receipt("004-005-006", "14:30",
             <<Bought(1, "PAN", 110, 110), Bought(2, "LECHE ENTERA", 120, 240)>>,
             Cents(350)),
     [Receipt("007-008-009", "14:30", <<Bought(1, "PAN", 110, 110)>>, Cents(110))
         EXCEPT !.date = None],
     Receipt("007-008-009", "", <<Bought(1, "PAN", 110, 110)>>, Cents(110)),
     Receipt("010-011-012", "14:30",
             <<Bought(1, "PAN", 110, 110), Bought(1, "CAFE", 220, 220)>>,
             FAdd(Cents(110), Cents(220))),
     Receipt("013-014-015", "14:30", <<Bought(1, "  ", 110, 110)>>, Cents(110)),
     Receipt("001-002-003", "", <<Bought(1, "PAN", 110, 110)>>, Cents(110))}

InitStore ==
    /\ db = EmptyDb
    /\ st_log = <<>>
    /\ st_got = None
    /\ ParserIdle /\ LineIdle /\ ValidatorIdle /\ MatcherIdle /\ TicketIdle /\ ProcessorIdle

\* one call of save_ticket
SaveTicket ==
    /\ Len(st_log) < MaxSaves
    /\ \E t \in StorePool :
          With(save_ticket(db, t), LAMBDA saved :
              /\ db' = saved.db
              /\ st_log' = Append(st_log, [ticket |-> t, exc |-> saved.exc,
                                           value |-> saved.value]))
    /\ st_got' = None
    /\ UNCHANGED <<parserVars, lineVars, validatorVars, matcherVars, ticketVars, processorVars>>

\* one call of get_ticket_by_id
GetTicketById ==
    /\ st_got = None
    /\ \E ticket_id \in 1..(MaxSaves + 1) :
          st_got' = Some([ticket_id |-> ticket_id,
                          returned |-> get_ticket_by_id(db, ticket_id)])
    /\ UNCHANGED <<db, st_log, parserVars, lineVars, validatorVars, matcherVars, ticketVars, processorVars>>

NextStore == SaveTicket \/ GetTicketById

SpecStore == InitStore /\ [][NextStore]_vars

(***************************************************************************)
(* Processing records started, PDFs processed and runs of the processor    *)
(***************************************************************************)
MaxStarts == 2
MaxDirect == 1
MaxRuns == 4

FirstReceipt == Receipt("001-002-003", "14:30", <<Bought(1, "PAN", 110, 110)>>, Cents(110))

\* a PDF without usable text, the first receipt, a receipt without date and
\* a receipt with another invoice number
PdfPool ==
    {[text_ok |-> FALSE, ticket |-> EmptyTicket],
     [text_ok |-> TRUE, ticket |-> FirstReceipt],
     [text_ok |-> TRUE, ticket |-> [FirstReceipt EXCEPT !.date = None]],
     [text_ok |-> TRUE, ticket |-> [FirstReceipt EXCEPT !.invoice_number = "004-005-006"]]}

MessageIdPool == {"m1", "m2"}

LookupPool == {"AttributeError", "ana@example.com"}

\* an unread message of a sender: the lookup of the subscription fails, the
\* sender is not subscribed, there is no Mercadona PDF, there is one
MessagePool ==
    {[id |-> "m3", sender_email |-> "ana@example.com", is_subscribed |-> s, attachments |-> a] :
        s \in {"AttributeError", "False", "True"},
        a \in {<<[filename |-> "Ticket Mercadona.pdf",
                  content |-> [text_ok |-> TRUE, ticket |-> FirstReceipt]]>>}}
    \cup
    {[id |-> "m3", sender_email |-> "ana@example.com", is_subscribed |-> "True",
      attachments |-> <<[filename |-> "foto.jpg", content |-> [text_ok |-> FALSE, ticket |-> EmptyTicket]]>>]}

MessageInputs == {<<>>} \cup {<<msg>> : msg \in MessagePool}

\* an empty database, or the database after save_ticket(FirstReceipt)
InitProcess ==
    /\ \E stored \in BOOLEAN :
          IF stored
          THEN With(save_ticket(EmptyDb, FirstReceipt), LAMBDA saved :
                   /\ db = saved.db
                   /\ st_log = <<[ticket |-> FirstReceipt, exc |-> saved.exc, value |-> saved.value]>>)
          ELSE db = EmptyDb /\ st_log = <<>>
    /\ st_got = None
    /\ p_stats = None
    /\ p_log = <<>>
    /\ p_count = [runs |-> 0, direct |-> 0, retried |-> [id \in 1..MaxStarts |-> 0]]
    /\ ParserIdle /\ LineIdle /\ ValidatorIdle /\ MatcherIdle /\ TicketIdle

\* one call of start_processing
StartProcessing ==
    /\ db.now < MaxStarts
    /\ \E message_id \in MessageIdPool, pdf \in PdfPool :
          db' = start_processing(db, message_id, "Ticket Mercadona.pdf", pdf, pdf).db
    /\ UNCHANGED <<st_log, st_got, p_stats, p_log, p_count, parserVars, lineVars, validatorVars, matcherVars, ticketVars>>

\* one call of _process_single_pdf, for a PDF alone or for the PDF of a
\* processing record
ProcessSinglePdf ==
    /\ p_count.direct < MaxDirect
    /\ \E call \in {[pdf |-> pdf, processing_id |-> None] : pdf \in PdfPool}
                   \cup {[pdf |-> db.processing_log[i].pdf_path, processing_id |-> Some(db.processing_log[i].id)] :
                            i \in 1..Len(db.processing_log)} :
          With(_process_single_pdf(db, call.pdf, call.processing_id, None), LAMBDA done :
              /\ db' = done.db
              /\ p_log' = <<Attempt("direct", call.processing_id, call.pdf, db, done)>>)
    /\ p_count' = [p_count EXCEPT !.direct = @ + 1]
    /\ UNCHANGED <<st_log, st_got, p_stats, parserVars, lineVars, validatorVars, matcherVars, ticketVars>>

\* the attempts of log in which _retry_failed_tickets processed the PDF of
\* the record processing_id
Retried(log, processing_id) ==
    {k \in 1..Len(log) :
        /\ log[k].via = "retry"
        /\ log[k].processing_id = Some(processing_id)
        /\ log[k].result.status # "raised"}

\* one run of process_all_tickets
ProcessAllTickets ==
    /\ p_count.runs < MaxRuns
    /\ \E messages \in MessageInputs :
       \E lookups \in [{db.processing_log[i].id : i \in 1..Len(db.processing_log)} -> LookupPool] :
          With(process_all_tickets(db, lookups, messages), LAMBDA st :
              /\ db' = st.db
              /\ p_stats' = Some(st.stats)
              /\ p_log' = st.log
              /\ p_count' = [p_count EXCEPT !.runs = @ + 1,
                                            !.retried = [id \in DOMAIN @ |-> @[id] + Cardinality(Retried(st.log, id))]])
    /\ UNCHANGED <<st_log, st_got, parserVars, lineVars, validatorVars, matcherVars, ticketVars>>

NextProcess == StartProcessing \/ ProcessSinglePdf \/ ProcessAllTickets

SpecProcess == InitProcess /\ [][NextProcess]_vars

(***************************************************************************)
(* Catalogues and queries of the category matcher                          *)
(***************************************************************************)
MaxRows == 3

\* a row of mercadona_productos joined with its categorias and subcategorias
Row(id, display_name, categoria_id, categoria_nombre, subcategoria_id, subcategoria_nombre, unit_price) ==
    [id |-> id, display_name |-> display_name,
     categoria_id |-> categoria_id, categoria_nombre |-> categoria_nombre,
     subcategoria_id |-> subcategoria_id,
     subcategoria_nombre |-> subcategoria_nombre, unit_price |-> unit_price]

RowPool ==
    {Row(1, "Leche Entera", 1, "Lacteos", Some(11), Some("Leche"), Some(120)),
     Row(2, " LECHE ENTERA ", 4, "Bebidas", None, None, Some(119)),
     Row(3, "Pan Integral", 3, "Panaderia", None, None, Some(360)),
     Row(4, "Aceite de Oliva.", 2, "Aceites", Some(21), Some("Oliva"), None)}

Catalogs == {c \in SUBSET RowPool : Cardinality(c) <= MaxRows}

NamePool ==
    {"LECHE ENTERA.", "Pan Integra", "Integral", "OLIVA", "PAN",
     "Aceite de Oliva", "Oliva y Aceite"}

PricePool == {None, Some(120), Some(300)}

\* no tier fails, or the database fails during one tier
FailsPool == {{}, {"exact"}, {"fuzzy"}, {"keyword"}, {"price"}}

InitMatch ==
    /\ m_query \in {Some([product_name |-> name, price |-> price,
                          self |-> [catalog |-> catalog, fails |-> fails]]) :
                       name \in NamePool, price \in PricePool,
                       catalog \in Catalogs, fails \in FailsPool}
    /\ m_result = None
    /\ ParserIdle /\ LineIdle /\ ValidatorIdle /\ TicketIdle /\ StoreIdle /\ ProcessorIdle

\* one call of categorize_product
CategorizeProduct ==
    /\ m_query # None
    /\ m_result = None
    /\ \E outcome \in categorize_product(m_query[1].self,
                                         m_query[1].product_name,
                                         m_query[1].price) :
           m_result' = Some(outcome)
    /\ UNCHANGED <<m_query, parserVars, lineVars, validatorVars, ticketVars, storeVars, processorVars>>

NextMatch == CategorizeProduct

SpecMatch == InitMatch /\ [][NextMatch]_vars

(***************************************************************************)
(* Properties of the product table                                         *)
(***************************************************************************)
IsHeaderLine(l) == Contains("Descripcion", l) /\ Contains("Importe", l)
IsTotalLine(l) == Contains("TOTAL", l) /\ Contains("$", l)

\* line i lies inside a product-table span of ls
InSpan(ls, i) ==
    /\ ~IsHeaderLine(ls[i]) /\ ~IsTotalLine(ls[i])
    /\ \E h \in 1..(i - 1) :
          /\ IsHeaderLine(ls[h])
          /\ \A k \in (h + 1)..(i - 1) : ~IsTotalLine(ls[k]) \/ IsHeaderLine(ls[k])

PriceCandidates(parts) == {i \in 2..Len(parts) : IsPriceToken(parts[i])}

\* the description of a line: the tokens between the quantity and the first
\* price candidate
DescriptionOf(parts) == join(SubSeq(parts, 2, SetMin(PriceCandidates(parts)) - 1))

\* quantity > 0, at least one price token, non-empty description
HasQuantityPriceDescription(l) ==
    LET parts == split(l)
    IN  /\ Len(parts) >= 2
        /\ int(parts[1]).exc = "none" /\ int(parts[1]).value > 0
        /\ PriceCandidates(parts) # {}
        /\ DescriptionOf(parts) # ""

\* the price that becomes TotalPrice: the second of exactly two candidates,
\* the first otherwise
TotalPriceOf(parts) ==
    LET cand == PriceCandidates(parts)
    IN  IF Cardinality(cand) = 2 THEN PriceToFloat(parts[SetMax(cand)])
        ELSE PriceToFloat(parts[SetMin(cand)])

SatisfiesLineItemInvariants(l) ==
    /\ HasQuantityPriceDescription(l)
    /\ ~FLe(TotalPriceOf(split(l)), FZero)

\* the indices of the lines of ls inside the span that satisfy Q, in order
SpanLines(ls, Q(_)) ==
    SelectSeq([i \in 1..Len(ls) |-> i],
              LAMBDA i : InSpan(ls, i) /\ Q(_clean_text(ls[i])))

\* the items are the lines idx of ls, one item per line, in document order
ItemsAre(products, ls, idx) ==
    /\ Len(products) = Len(idx)
    /\ \A k \in 1..Len(idx) :
          LET parts == split(ls[idx[k]])
          IN  /\ products[k].quantity = int(parts[1]).value
              /\ products[k].description = DescriptionOf(parts)
              /\ products[k].total_price = TotalPriceOf(parts)

\* C1 as stated: the items returned by parse() are, in document order, the
\* lines inside the product-table span that have a quantity > 0, a price
\* token and a non-empty description.  Fails: "1 CAFE 0,00" is dropped.
OriginalC1 ==
    \A k \in 1..Len(returned) :
        ItemsAre(returned[k].products, lines,
                 SpanLines(lines, HasQuantityPriceDescription))

\* C1 amended: the items returned by parse() are, in document order, exactly
\* the lines inside the product-table span that satisfy the LineItem
\* invariants including TotalPrice > 0; other lines of the span are dropped
\* without an exception and no line outside the span gives an item.
ClaimC1 ==
    /\ raised = None
    /\ \A k \in 1..Len(returned) :
          ItemsAre(returned[k].products, lines,
                   SpanLines(lines, SatisfiesLineItemInvariants))

\* a valid line before the header, a zero-priced and a valid line inside
WitnessC1 ==
    /\ lines = <<"1 PAN 2,50", "Descripcion Importe", "1 CAFE 0,00",
                 "2 LECHE ENTERA 1,20 2,40">>
    /\ Len(returned) = 1
    /\ Len(returned[1].products) = 1
    /\ returned[1].products[1].description = "LECHE ENTERA"

(***************************************************************************)
(* Properties of _parse_product_line                                       *)
(***************************************************************************)
LecheEntera ==
    [quantity |-> 2, description |-> "LECHE ENTERA",
     unit_price |-> Some(Cents(120)), total_price |-> Cents(240),
     weight |-> None]

\* C2: a returned Product has its prices by position (one candidate: it is
\* the total and there is no unit price; two: unit price then total), the
\* tokens between quantity and first candidate as description, and no
\* weight when the line has no "kg"; "2 LECHE ENTERA 1,20 2,40" gives
\* quantity 2, "LECHE ENTERA", unit 1.20, total 2.40, weight None.
ClaimC2 ==
    pl_result[1] = "done" =>
        LET parts == split(pl_line)
            cand == PriceCandidates(parts)
            got == pl_result[2].value
        IN  /\ pl_result[2].exc = "none"
            /\ pl_line = "2 LECHE ENTERA 1,20 2,40" => got = Some(LecheEntera)
            /\ got # None =>
                  /\ cand # {}
                  /\ got[1].quantity = int(parts[1]).value
                  /\ got[1].description = DescriptionOf(parts)
                  /\ Cardinality(cand) = 1 =>
                        /\ got[1].total_price = PriceToFloat(parts[SetMin(cand)])
                        /\ got[1].unit_price = None
                  /\ Cardinality(cand) = 2 =>
                        /\ got[1].unit_price = Some(PriceToFloat(parts[SetMin(cand)]))
                        /\ got[1].total_price = PriceToFloat(parts[SetMax(cand)])
                  /\ ~Contains("kg", pl_line) => got[1].weight = None

WitnessC2 ==
    /\ pl_line = "2 LECHE ENTERA 1,20 2,40"
    /\ pl_result = <<"done", [exc |-> "none", value |-> Some(LecheEntera)]>>

(***************************************************************************)
(* Properties of parse()                                                   *)
(***************************************************************************)
Markers ==
    {"MERCADONA", "C/", "HUMANES", "TELEFONO:", "OP:", "FACTURA", "N#",
     "TOTAL", "Descripcion", "IVA", "TARJETA BANCARIA", "EFECTIVO"}

\* a line some extractor could use: it has a marker or a digit
Recognisable(l) ==
    \/ \E m \in Markers : Contains(m, l)
    \/ \E i \in 1..Len(l) : IsDigit(Ch(l, i))

\* C3: parse() raises for no text; the ticket of a text with no recognisable
\* line is the empty ticket, and a field no line can populate keeps its
\* default (total 0.0, no items, no date).
ClaimC3 ==
    /\ raised = None
    /\ pc # "raised"
    /\ \A k \in 1..Len(returned) :
          LET t == returned[k]
              NoLine(P(_)) == \A i \in 1..Len(lines) : ~P(lines[i])
              HasDate(l) == \E i \in 1..Len(l) : DateAt(l, i)
          IN  /\ NoLine(Recognisable) => t = EmptyTicket
              /\ NoLine(IsTotalLine) => t.total = FZero
              /\ NoLine(IsHeaderLine) => t.products = <<>>
              /\ NoLine(HasDate) => t.date = None
              /\ \A i \in 1..Len(t.products) : t.products[i].quantity > 0

\* the text of the test, and a date line strptime rejects
WitnessC3 ==
    /\ lines = <<"", "Texto que no es un ticket", "31/02/2025 14:30">>
    /\ Len(returned) >= 1
    /\ returned[1] = [EmptyTicket EXCEPT !.time = "14:30"]

\* C4: every call of parse() on the same parser returns the same ticket;
\* the items of an earlier call are not carried into a later one.
ClaimC4 ==
    \A k \in 2..Len(returned) : returned[k] = returned[1]

WitnessC4 ==
    /\ Len(returned) = 2
    /\ Len(returned[1].products) = 1
    /\ Len(returned[2].products) = 1
    /\ returned[2].invoice_number = "001-123-456"

(***************************************************************************)
(* Properties of the invoice number                                        *)
(***************************************************************************)
Simplificada == "FACTURA SIMPLIFICADA: 001-002-003"
Factura == "FACTURA: 987654321"

\* the text that follows label on a line that starts with it
AfterLabel(label, l) == strip(SubSeq(l, Len(label) + 1, Len(l)))

Indices(ls, P(_)) == {i \in 1..Len(ls) : P(ls[i])}

\* a line with one of the invoice labels
IsLabelled(l) == Contains("FACTURA", upper(l)) \/ Contains("FAC:", upper(l))

\* a dash-grouped digit run on a line without an invoice label
IsUnrelatedDashed(l) == ~IsLabelled(l) /\ DashedSearch(l) # None

\* C5: when the only labelled invoice line is the FACTURA SIMPLIFICADA line
\* and an unrelated dash-grouped run stands on a line after the product
\* table, the invoice number is the one of the FACTURA SIMPLIFICADA line,
\* whichever of the two lines comes first.
ClaimC5 ==
    \A k \in 1..Len(returned) :
        (/\ Indices(lines, IsLabelled) # {}
         /\ \A i \in Indices(lines, IsLabelled) : lines[i] = Simplificada
         /\ \E i \in Indices(lines, IsUnrelatedDashed) :
                i > SetMax(Indices(lines, IsTotalLine)))
        => returned[k].invoice_number = AfterLabel("FACTURA SIMPLIFICADA:", Simplificada)

\* the unrelated run comes first, the labelled line last, both after the table
WitnessC5 ==
    /\ lines = TableLines \o <<"123-456-789", Simplificada>>
    /\ Len(returned) = 1
    /\ returned[1].invoice_number = "001-002-003"

\* C6: when the only labelled invoice line is "FACTURA: <digits>", the
\* invoice number is exactly the digits after the label.
ClaimC6 ==
    \A k \in 1..Len(returned) :
        (/\ Indices(lines, IsLabelled) # {}
         /\ \A i \in Indices(lines, IsLabelled) : lines[i] = Factura)
        => /\ returned[k].invoice_number = AfterLabel("FACTURA:", Factura)
           /\ AllDigits(returned[k].invoice_number)

\* a bare dash-grouped run before and after the labelled line
WitnessC6 ==
    /\ lines = <<"123-456-789", Factura>> \o TableLines \o <<"AUT: 44-55-66">>
    /\ Len(returned) = 1
    /\ returned[1].invoice_number = "987654321"

(***************************************************************************)
(* Properties of the validator                                             *)
(***************************************************************************)
\* the amount of a price in hundredths
Hundredths(x) == x.c

RECURSIVE SumHundredths(_, _)
SumHundredths(products, n) ==
    IF n = 0 THEN 0
    ELSE SumHundredths(products, n - 1) + Hundredths(products[n].total_price)

\* the item totals differ from the total by more than 0.5 currency units
TotalMismatch(t) ==
    Abs(SumHundredths(t.products, Len(t.products)) - Hundredths(t.total)) > 50

ItemProblems(p) == strip(p.description) = "" \/ Hundredths(p.total_price) <= 0

\* the six checks
SixChecksHold(t) ==
    /\ Hundredths(t.total) > 0
    /\ Len(t.products) >= 1
    /\ t.date # None
    /\ strip(t.invoice_number) # ""
    /\ ~TotalMismatch(t)
    /\ \A i \in 1..Len(t.products) : ~ItemProblems(t.products[i])

\* C7: validate_ticket returns is_valid = true exactly when the six checks
\* hold (total positive, at least one item, date present, invoice number
\* present and not blank, item totals within 0.5 of the total, every item
\* with a non-blank description and a positive total price), and is_valid is
\* true exactly when the list of reasons is empty.
ClaimC7 ==
    v_result # None =>
        /\ v_result[1].is_valid <=> SixChecksHold(v_ticket[1])
        /\ v_result[1].is_valid <=> v_result[1].errors = <<>>

MismatchReason == Reason("Suma de productos no coincide con total", 0)

HasReason(errors, reason) == \E k \in 1..Len(errors) : errors[k] = reason

\* C8: the tolerance of the total is inclusive: the total-mismatch reason is
\* given exactly when the item totals differ from the declared total by more
\* than 0.5 currency units, and a ticket that has it is invalid.
ClaimC8 ==
    v_result # None =>
        /\ HasReason(v_result[1].errors, MismatchReason)
               <=> TotalMismatch(v_ticket[1])
        /\ HasReason(v_result[1].errors, MismatchReason)
               => ~v_result[1].is_valid

RECURSIVE ItemReasons(_, _)
ItemReasons(products, i) ==
    IF i > Len(products) THEN <<>>
    ELSE AppendIf(strip(products[i].description) = "",
                  "Producto sin descripcion", i)
         \o AppendIf(Hundredths(products[i].total_price) <= 0,
                     "Producto con precio invalido", i)
         \o ItemReasons(products, i + 1)

\* one reason per failed check, in the fixed order
ExpectedReasons(t) ==
    AppendIf(Hundredths(t.total) <= 0, "Total invalido o cero", 0)
    \o AppendIf(Len(t.products) = 0, "Sin productos", 0)
    \o AppendIf(t.date = None, "Sin fecha", 0)
    \o AppendIf(strip(t.invoice_number) = "", "Sin numero de factura", 0)
    \o AppendIf(TotalMismatch(t), "Suma de productos no coincide con total", 0)
    \o ItemReasons(t.products, 1)

\* C9: validate_ticket does not raise and does not stop at the first failed
\* check: the reasons are one per failed check, in the order total, items,
\* date, invoice number, total mismatch, then the problems of each item.
ClaimC9 ==
    v_result # None => v_result[1].errors = ExpectedReasons(v_ticket[1])

(***************************************************************************)
(* Properties of the matcher cascade                                       *)
(***************************************************************************)
Tiers == <<"exact", "fuzzy", "keyword", "price">>

\* the results the tier alone can give for the query
TierResults(q, tier) ==
    CASE tier = "exact" ->
             _exact_match(q.self, _clean_product_name(q.product_name))
      [] tier = "fuzzy" ->
             _fuzzy_match(q.self, _clean_product_name(q.product_name))
      [] tier = "keyword" ->
             _keyword_match(q.self, _clean_product_name(q.product_name))
      [] tier = "price" ->
             _price_match(q.self, _clean_product_name(q.product_name),
                          q.price[1])

TierThreshold(tier) ==
    CASE tier = "exact" -> EXACT_MATCH_THRESHOLD
      [] tier = "fuzzy" -> FUZZY_MATCH_THRESHOLD
      [] tier = "keyword" -> KEYWORD_MATCH_THRESHOLD
      [] tier = "price" -> PRICE_MATCH_THRESHOLD

\* the tiers the call can use: the price tier needs a price
Applicable(q) == IF q.price = None THEN 3 ELSE 4

\* the result of the tier clears the threshold of the tier
Accepts(q, k) ==
    \E r \in TierResults(q, Tiers[k]) :
        FracGe(r.confidence, TierThreshold(Tiers[k]))

Accepting(q) == {k \in 1..Applicable(q) : Accepts(q, k)}

\* C10: the tiers are tried in the order exact, fuzzy, keyword, price; the
\* result returned is that of the first tier that clears its threshold, no
\* tier after it is tried, and match_type names the strongest accepting tier.
ClaimC10 ==
    m_result # None =>
        With(m_query[1], LAMBDA q :
        With(m_result[1], LAMBDA o :
        With(Accepting(q), LAMBDA accepting :
        IF accepting = {}
        THEN /\ o.attempted = SubSeq(Tiers, 1, Applicable(q))
             /\ o.result.categoria_id = None
             /\ o.result.match_type \notin {"exact", "fuzzy", "keyword", "price"}
        ELSE /\ o.attempted = SubSeq(Tiers, 1, SetMin(accepting))
             /\ o.result.match_type = Tiers[SetMin(accepting)]
             /\ o.result \in TierResults(q, Tiers[SetMin(accepting)]))))

\* the fuzzy tier accepted a query that the keyword and price tiers would
\* accept as well
WitnessC10 ==
    /\ m_result # None
    /\ m_result[1].result.match_type = "fuzzy"
    /\ m_result[1].attempted = <<"exact", "fuzzy">>
    /\ Accepts(m_query[1], 3)
    /\ m_query[1].price # None
    /\ Accepts(m_query[1], 4)

(***************************************************************************)
(* Properties of the matcher tiers                                         *)
(***************************************************************************)
\* the catalogue rows whose normalized description is the normalized query
SameNormalized(q) ==
    {row \in q.self.catalog :
        _clean_product_name(row.display_name)
            = _clean_product_name(q.product_name)}

IsOne(x) == x.num = x.den
IsZero(x) == x.num = 0

\* the result carries the category of the row
CategoryOf(result, row) ==
    /\ result.categoria_id = Some(row.categoria_id)
    /\ result.subcategoria_id = row.subcategoria_id

\* C11: when no lookup fails and the normalized query equals the normalized
\* description of some catalogue row, the result is match_type exact with
\* confidence 1.0 and the category of such a row, whatever else the
\* catalogue holds.
ClaimC11 ==
    (m_result # None /\ m_query[1].self.fails = {}
        /\ SameNormalized(m_query[1]) # {}) =>
        /\ m_result[1].result.match_type = "exact"
        /\ IsOne(m_result[1].result.confidence)
        /\ \E row \in SameNormalized(m_query[1]) :
               CategoryOf(m_result[1].result, row)

\* C12: when no lookup fails and no tier accepts, the call returns a result
\* with match_type none, confidence 0.0, null category and subcategory ids
\* and a message that names the query.
ClaimC12 ==
    (m_result # None /\ m_query[1].self.fails = {}
        /\ Accepting(m_query[1]) = {}) =>
        /\ m_result[1].result.match_type = "none"
        /\ IsZero(m_result[1].result.confidence)
        /\ m_result[1].result.categoria_id = None
        /\ m_result[1].result.subcategoria_id = None
        /\ m_result[1].result.match_details # None
        /\ Contains(m_query[1].product_name,
                    m_result[1].result.match_details[1])

\* the rows whose unit price is within 20% of the price, in hundredths
WithinMargin(q) ==
    {row \in q.self.catalog :
        /\ row.unit_price # None
        /\ 10 * row.unit_price[1] >= 8 * q.price[1]
        /\ 10 * row.unit_price[1] <= 12 * q.price[1]}

PriceDiff(q, row) == Abs(row.unit_price[1] - q.price[1])

Closest(q) ==
    {row \in WithinMargin(q) :
        \A other \in WithinMargin(q) : PriceDiff(q, row) <= PriceDiff(q, other)}

\* confidence = max(0.5, 1 - diff / price)
IsPriceConfidence(x, diff, price) ==
    IF 2 * (price - diff) >= price
    THEN x.num * price = (price - diff) * x.den
    ELSE 2 * x.num = x.den

InSeq(x, s) == \E k \in 1..Len(s) : s[k] = x

\* C13: when no lookup fails, the price tier is attempted exactly when a
\* price is given and no stronger tier accepted; it then accepts exactly
\* when some row has a unit price within 20% of the price, takes a row with
\* the smallest absolute difference and reports max(0.5, 1 - diff / price).
ClaimC13 ==
    (m_result # None /\ m_query[1].self.fails = {}) =>
        /\ InSeq("price", m_result[1].attempted)
               <=> /\ m_query[1].price # None
                   /\ \A k \in 1..3 : ~Accepts(m_query[1], k)
        /\ InSeq("price", m_result[1].attempted) =>
               IF WithinMargin(m_query[1]) = {}
               THEN m_result[1].result.match_type # "price"
               ELSE /\ m_result[1].result.match_type = "price"
                    /\ \E row \in Closest(m_query[1]) :
                           /\ CategoryOf(m_result[1].result, row)
                           /\ IsPriceConfidence(m_result[1].result.confidence,
                                                PriceDiff(m_query[1], row),
                                                m_query[1].price[1])

\* the tier was called and its catalogue lookup raised
LookupFailed(q, o, tier) ==
    /\ tier \in q.self.fails
    /\ InSeq(tier, o.attempted)
    /\ tier = "keyword" =>
           \E k \in 1..Len(split(_clean_product_name(q.product_name))) :
               Len(split(_clean_product_name(q.product_name))[k]) > 3

\* C14: a failure of the catalogue lookup inside a tier goes to the caller:
\* no call in which a lookup failed returns a result.
ClaimC14 ==
    m_result # None =>
        \A tier \in {"exact", "fuzzy", "keyword", "price"} :
            ~LookupFailed(m_query[1], m_result[1], tier)

(***************************************************************************)
(* Properties of the TicketData constructor                                *)
(***************************************************************************)
NonPositiveWithItems(t) == Len(t.products) >= 1 /\ FLe(t.total, FZero)

\* C15: constructing a TicketData with at least one item and total <= 0
\* does not raise; the violation is reported only by the validator, as one
\* of its reasons.
ClaimC15 ==
    /\ (t_made # None /\ NonPositiveWithItems(t_args[1])) =>
           t_made[1] = [exc |-> "none", value |-> t_args]
    /\ (v_result # None /\ NonPositiveWithItems(v_ticket[1])) =>
           /\ ~v_result[1].is_valid
           /\ HasReason(v_result[1].errors, Reason("Total invalido o cero", 0))

(***************************************************************************)
(* Properties of the items of a parsed ticket                              *)
(***************************************************************************)
\* C16: every item of every ticket returned by parse() has quantity > 0,
\* total price > 0 and a non-blank description; a line that would break
\* this is rejected by Product and dropped by _parse_product_line, and no
\* exception leaves parse().
ClaimC16 ==
    /\ raised = None
    /\ \A k \in 1..Len(returned) :
          /\ \A j \in 1..Len(returned[k].products) :
                With(returned[k].products[j], LAMBDA p :
                    /\ p.quantity > 0
                    /\ ~FLe(p.total_price, FZero)
                    /\ strip(p.description) # "")
          /\ Len(returned[k].products)
                = Len(SpanLines(lines, SatisfiesLineItemInvariants))

\* a zero quantity and a zero price are dropped, the valid line is kept
WitnessC16 ==
    /\ lines = <<"Descripcion Importe", "0 PAN 2,50", "1 CAFE 0,00", "1 PAN 2,50">>
    /\ raised = None
    /\ Len(returned) = 1
    /\ Len(returned[1].products) = 1
    /\ returned[1].products[1].quantity = 1

(***************************************************************************)
(* Properties of the confidence of a returned MatchResult                  *)
(***************************************************************************)
\* C17: the confidence of every result of categorize_product lies in
\* [0, 1]; an accepted result has confidence 1.0 when exact, at least 0.8
\* when fuzzy, between 0.6 and 0.9 when keyword and at least 0.5 when price;
\* a result with confidence 0.0 has no category and no subcategory id.
ClaimC17 ==
    m_result # None =>
        With(m_result[1].result, LAMBDA r :
            /\ FracGe(r.confidence, Frac(0, 1))
            /\ FracGe(Frac(1, 1), r.confidence)
            /\ r.match_type = "exact" => IsOne(r.confidence)
            /\ r.match_type = "fuzzy" => FracGe(r.confidence, Frac(8, 10))
            /\ r.match_type = "keyword" =>
                  /\ FracGe(r.confidence, Frac(6, 10))
                  /\ FracGe(Frac(9, 10), r.confidence)
            /\ r.match_type = "price" => FracGe(r.confidence, Frac(5, 10))
            /\ IsZero(r.confidence) =>
                  r.categoria_id = None /\ r.subcategoria_id = None)

\* the keyword tier accepted a result whose confidence was capped at 0.9
WitnessC17 ==
    /\ m_result # None
    /\ m_result[1].result.match_type = "keyword"
    /\ m_result[1].result.confidence = Frac(9, 10)
    /\ m_result[1].result.categoria_id # None

(***************************************************************************)
(* Properties of a product line with more than two price candidates        *)
(***************************************************************************)
\* C19: when a product line has more than two price candidates, the first
\* becomes the unit price and the second the total price of the returned
\* Product, and the later candidates are ignored.
ClaimC19 ==
    pl_result[1] = "done" =>
        LET parts == split(pl_line)
            cand == PriceCandidates(parts)
            got == pl_result[2].value
        IN  (Cardinality(cand) > 2 /\ got # None) =>
                /\ got[1].unit_price = Some(PriceToFloat(parts[SetMin(cand)]))
                /\ got[1].total_price
                      = PriceToFloat(parts[SetMin(cand \ {SetMin(cand)})])

(***************************************************************************)
(* Properties of the precedence of the invoice-number patterns             *)
(***************************************************************************)
\* C20: the invoice-number patterns have a strict precedence: when a
\* "FACTURA SIMPLIFICADA:" line is present the invoice number is its
\* dash-grouped number, otherwise when a "FACTURA:" line is present it is
\* its digits, whatever lines of a lower pattern stand before or after.
ClaimC20 ==
    \A k \in 1..Len(returned) :
        With(Indices(lines, LAMBDA l : l = Simplificada) # {}, LAMBDA first :
        With(Indices(lines, LAMBDA l : l = Factura) # {}, LAMBDA second :
            /\ first =>
                  returned[k].invoice_number
                      = AfterLabel("FACTURA SIMPLIFICADA:", Simplificada)
            /\ (~first /\ second) =>
                  returned[k].invoice_number = AfterLabel("FACTURA:", Factura)))

(***************************************************************************)
(* Properties of the store                                                 *)
(***************************************************************************)
\* two amounts that differ by at most 0.01
SameAmount(x, y) == FLe(FAbs(FSub(x, y)), Cents(1))

\* the ticket read back has the invoice number, the total and, in order,
\* the description, quantity and total price of the items of t
SameReceipt(t, got) ==
    /\ got.exc = "none"
    /\ got.value # None
    /\ got.value[1].invoice_number = t.invoice_number
    /\ SameAmount(got.value[1].total, t.total)
    /\ Len(got.value[1].products) = Len(t.products)
    /\ \A j \in 1..Len(t.products) :
          /\ got.value[1].products[j].description = t.products[j].description
          /\ got.value[1].products[j].quantity = t.products[j].quantity
          /\ SameAmount(got.value[1].products[j].total_price,
                        t.products[j].total_price)

\* the last save_ticket returned an id and that id has been read since
ReadBack ==
    /\ st_log # <<>>
    /\ st_log[Len(st_log)].exc = "none"
    /\ st_got # None
    /\ st_got[1].ticket_id = st_log[Len(st_log)].value

\* a valid ticket: the six checks hold and every item has a quantity > 0
ValidReceipt(t) ==
    /\ SixChecksHold(t)
    /\ \A j \in 1..Len(t.products) : t.products[j].quantity > 0

NewInvoiceNumber(t) ==
    \A k \in 1..(Len(st_log) - 1) :
        st_log[k].exc # "none" \/ st_log[k].ticket.invoice_number # t.invoice_number

BareBeforeTable(ls) ==
    {i \in Indices(ls, IsUnrelatedDashed) : i < SetMin(Indices(ls, IsHeaderLine))}

\* C21: without a labelled invoice line, the invoice number is the
\* dash-grouped run of the first bare line before the product table, and it
\* stays unset when the only bare runs stand at or after the first item
\* line.
ClaimC21 ==
    \A k \in 1..Len(returned) :
        Indices(lines, IsLabelled) = {} =>
            With(BareBeforeTable(lines), LAMBDA before :
                returned[k].invoice_number
                    = IF before = {} THEN ""
                      ELSE DashedSearch(lines[SetMin(before)])[1])

(***************************************************************************)
(* Properties of the labelled invoice lines                                *)
(***************************************************************************)
\* the text after the last ':' of l
AfterColon(l) ==
    strip(SubSeq(l, SetMax({i \in 1..Len(l) : Ch(l, i) = ":"}) + 1, Len(l)))

\* l is the only line of the text with an invoice label
OnlyLabelled(l) ==
    /\ Indices(lines, IsLabelled) # {}
    /\ \A i \in Indices(lines, IsLabelled) : lines[i] = l

\* C22: a line with the label "N# FACTURA:" or "N# FAC:", in either case,
\* sets the invoice number to the whole number after the label:
\* "N# FACTURA: 555-666-777" gives "555-666-777" as "N# FAC: 111-222-333"
\* gives "111-222-333".
ClaimC22 ==
    \A k \in 1..Len(returned) :
        \A l \in {"N# FACTURA: 555-666-777", "N# FAC: 111-222-333", "n# fac: 444"} :
            OnlyLabelled(l) => returned[k].invoice_number = AfterColon(l)

\* C23: a line with a labelled invoice number sets the invoice number also
\* when an earlier branch of the store-info scan recognises the same line:
\* "OP: 12345 FACTURA SIMPLIFICADA: 999-888-777" gives "999-888-777".
ClaimC23 ==
    \A k \in 1..Len(returned) :
        \A l \in {"OP: 12345 FACTURA SIMPLIFICADA: 999-888-777",
                  "C/ MAYOR 1 FACTURA: 987654321"} :
            OnlyLabelled(l) => returned[k].invoice_number = AfterColon(l)

(***************************************************************************)
(* Properties of the declared total                                        *)
(***************************************************************************)
\* the TOTAL lines of ls that come after the header of the product table
TotalsAfterTable(ls) ==
    {i \in Indices(ls, IsTotalLine) : i > SetMin(Indices(ls, IsHeaderLine))}

\* C24: the declared total is the comma-decimal token of the first TOTAL
\* line that comes after the product table; a TOTAL line before the header
\* of the table is not used and later TOTAL lines never overwrite it.
ClaimC24 ==
    \A k \in 1..Len(returned) :
        Indices(lines, IsHeaderLine) # {} =>
            With(TotalsAfterTable(lines), LAMBDA after :
                returned[k].total
                    = IF after = {} THEN FZero
                      ELSE _extract_price(lines[SetMin(after)])[1])

(***************************************************************************)
(* Properties of the keyword tier                                          *)
(***************************************************************************)
\* the words of the normalized query that are longer than 3 characters
SignificantWords(q) ==
    With(split(_clean_product_name(q.product_name)), LAMBDA words :
        {words[k] : k \in {k \in 1..Len(words) : Len(words[k]) > 3}})

\* the number of distinct significant words of q that row contains
MatchedWords(q, row) ==
    Cardinality({w \in SignificantWords(q) : Contains(w, lower(row.display_name))})

BestMatchedWords(q) == SetMax({0} \cup {MatchedWords(q, row) : row \in q.self.catalog})

\* min(0.9, matched_words / significant_words) of the best-ranked row
KeywordConfidence(q) ==
    FracMin(Frac(9, 10), Frac(BestMatchedWords(q), Cardinality(SignificantWords(q))))

\* C25: when the keyword tier is reached and its lookup does not fail, it
\* gives nothing for a query without a word longer than 3 characters and
\* otherwise reports min(0.9, matched_words / significant_words), counting
\* the distinct significant words that the best-ranked catalogue row
\* contains, with the category of such a row; the result is accepted when
\* that confidence is at least 0.6, so a row with every significant word is
\* accepted with confidence 0.9.
ClaimC25 ==
    (/\ m_result # None
     /\ InSeq("keyword", m_result[1].attempted)
     /\ "keyword" \notin m_query[1].self.fails) =>
        With(m_query[1], LAMBDA q :
        With(m_result[1].result, LAMBDA r :
            IF \/ SignificantWords(q) = {}
               \/ BestMatchedWords(q) = 0
               \/ ~FracGe(KeywordConfidence(q), Frac(6, 10))
            THEN r.match_type # "keyword"
            ELSE /\ r.match_type = "keyword"
                 /\ FracGe(r.confidence, KeywordConfidence(q))
                 /\ FracGe(KeywordConfidence(q), r.confidence)
                 /\ \E row \in q.self.catalog :
                        /\ MatchedWords(q, row) = BestMatchedWords(q)
                        /\ CategoryOf(r, row)))


(***************************************************************************)
(* The fuzzy tier                                                          *)
(***************************************************************************)
FuzzyRatio(q, row) ==
    ratio(_clean_product_name(q.product_name), _clean_product_name(row.display_name))

\* a row of the catalogue no other row is more similar to the query than
IsMostSimilar(q, row) ==
    /\ row \in q.self.catalog
    /\ \A other \in q.self.catalog : FracGe(FuzzyRatio(q, row), FuzzyRatio(q, other))

FuzzyAccepts(q) ==
    \E row \in q.self.catalog : FracGe(FuzzyRatio(q, row), Frac(8, 10))

\* C26: when the fuzzy tier is asked and its lookup does not fail, it accepts
\* exactly when the greatest similarity ratio between the normalized query
\* and the normalized description of a catalogue row is at least 0.8; the
\* result then carries that greatest ratio as confidence and the category of
\* a row attaining it.
ClaimC26 ==
    (/\ m_result # None
     /\ InSeq("fuzzy", m_result[1].attempted)
     /\ "fuzzy" \notin m_query[1].self.fails) =>
        With(m_query[1], LAMBDA q :
        With(m_result[1].result, LAMBDA r :
        IF FuzzyAccepts(q)
        THEN /\ r.match_type = "fuzzy"
             /\ \E row \in q.self.catalog :
                   /\ IsMostSimilar(q, row)
                   /\ CategoryOf(r, row)
                   /\ FracGe(r.confidence, FuzzyRatio(q, row))
                   /\ FracGe(FuzzyRatio(q, row), r.confidence)
        ELSE r.match_type # "fuzzy"))

\* the fuzzy tier accepted the most similar of several rows, one of them
\* less similar, with a ratio below 1
WitnessC26 ==
    /\ m_result # None
    /\ m_result[1].result.match_type = "fuzzy"
    /\ "fuzzy" \notin m_query[1].self.fails
    /\ ~FracGe(m_result[1].result.confidence, Frac(1, 1))
    /\ \E row \in m_query[1].self.catalog : ~IsMostSimilar(m_query[1], row)
    /\ \E row \in m_query[1].self.catalog :
          /\ ~FracGe(FuzzyRatio(m_query[1], row), Frac(8, 10))
          /\ FuzzyRatio(m_query[1], row).num > 0


(***************************************************************************)
(* Properties of the weight of a product line                              *)
(***************************************************************************)
\* the spans i..k of line that are a comma-decimal figure followed, after
\* optional whitespace, by "kg"
KgFigures(line) ==
    {span \in (1..Len(line)) \X (1..Len(line)) :
        /\ span[1] <= span[2]
        /\ IsPriceToken(SubSeq(line, span[1], span[2]))
        /\ \E j \in span[2]..Len(line) :
              /\ \A m \in (span[2] + 1)..j : IsSpace(Ch(line, m))
              /\ StartsAt("kg", line, j + 1)}

\* the figure of the leftmost such span
KgFigure(line) ==
    With(SetMin({span[1] : span \in KgFigures(line)}), LAMBDA i :
    SubSeq(line, i, SetMax({span[2] : span \in {s \in KgFigures(line) : s[1] = i}})))

\* the price candidates that are the weight figure: a token equal to it that
\* stands before a token beginning with kg
WeightCandidates(parts, figure) ==
    {c \in PriceCandidates(parts) :
        /\ parts[c] = figure
        /\ c < Len(parts)
        /\ StartsAt("kg", parts[c + 1], 1)}

\* C27: a returned Product of a line with a comma-decimal figure before a
\* "kg" marker has that figure followed by " kg" as weight, whether or not
\* the figure is a price candidate; the figure stays among the price
\* candidates: it is counted when the number of candidates decides between
\* unit price and total, and as the first candidate it gives the unit price
\* of two candidates and the total otherwise.
ClaimC27 ==
    pl_result[1] = "done" =>
        With(split(pl_line), LAMBDA parts :
        With(pl_result[2].value, LAMBDA got :
        (got # None /\ KgFigures(pl_line) # {}) =>
            With(KgFigure(pl_line), LAMBDA figure :
            With(PriceCandidates(parts), LAMBDA cand :
                /\ got[1].weight = Some(figure \o " kg")
                /\ \A c \in WeightCandidates(parts, figure) :
                      /\ (got[1].unit_price # None) <=> (Cardinality(cand) = 2)
                      /\ (c = SetMin(cand) /\ Cardinality(cand) = 2) =>
                            got[1].unit_price = Some(PriceToFloat(figure))
                      /\ (c = SetMin(cand) /\ Cardinality(cand) # 2) =>
                            got[1].total_price = PriceToFloat(figure)
                      /\ (c # SetMin(cand) /\ Cardinality(cand) = 2) =>
                            got[1].total_price = PriceToFloat(figure)))))

\* the weight figure 0,50 was also taken as the unit price
WitnessC27 ==
    /\ pl_line = "2 LECHE ENTERA 0,50 kg 1,20"
    /\ pl_result[1] = "done"
    /\ pl_result[2].value # None
    /\ pl_result[2].value[1].weight = Some("0,50 kg")
    /\ pl_result[2].value[1].unit_price = Some(Cents(50))
    /\ pl_result[2].value[1].total_price = Cents(120)

\* the weight figure is glued to its marker and is no price candidate
WitnessC27Glued ==
    /\ pl_line = "2 LECHE ENTERA 0,50kg 1,20"
    /\ pl_result[1] = "done"
    /\ pl_result[2].value # None
    /\ pl_result[2].value[1].weight = Some("0,50 kg")
    /\ pl_result[2].value[1].unit_price = None


(***************************************************************************)
(* Properties of saving a stored invoice number again                      *)
(***************************************************************************)
\* the calls of st_log that returned an id for invoice number n
SavedWith(n) ==
    {j \in 1..Len(st_log) :
        st_log[j].exc = "none" /\ st_log[j].ticket.invoice_number = n}

\* the rows of productos of ticket_id, in the order of the table
ItemRows(ticket_id) == SelectSeq(db.productos, LAMBDA row : row.ticket_id = ticket_id)

\* the row of tickets with this id and its items are those of ticket t
StoredAs(ticket_id, t) ==
    /\ \E i \in 1..Len(db.tickets) :
          /\ db.tickets[i].id = ticket_id
          /\ db.tickets[i].numero_factura = t.invoice_number
          /\ db.tickets[i].total = Numeric2(t.total)
          /\ Some(db.tickets[i].hora_compra) = TimeInput(t.time)
    /\ Len(ItemRows(ticket_id)) = Len(t.products)
    /\ \A j \in 1..Len(t.products) :
          /\ ItemRows(ticket_id)[j].descripcion = t.products[j].description
          /\ ItemRows(ticket_id)[j].cantidad = t.products[j].quantity
          /\ ItemRows(ticket_id)[j].precio_total = Numeric2(t.products[j].total_price)

\* C28: after any sequence of save_ticket calls no two rows of tickets have
\* the same invoice number, and a call with a valid ticket whose invoice
\* number an earlier call stored returns the id that call returned, while
\* the row and the items stored under that id stay those of the first
\* ticket.
ClaimC28 ==
    /\ \A i, j \in 1..Len(db.tickets) :
          db.tickets[i].numero_factura = db.tickets[j].numero_factura => i = j
    /\ \A k \in 1..Len(st_log) :
          With(st_log[k], LAMBDA call :
          With({j \in SavedWith(call.ticket.invoice_number) : j < k}, LAMBDA before :
              (ValidReceipt(call.ticket) /\ before # {}) =>
                  With(st_log[SetMin(before)], LAMBDA first :
                      /\ call.exc = "none"
                      /\ call.value = first.value
                      /\ StoredAs(first.value, first.ticket))))


ClaimC30 ==
    \A k \in 1..Len(p_log) :
        With(p_log[k], LAMBDA attempt :
            (attempt.stored /\ attempt.result.status # "raised") =>
                /\ attempt.result.status # "success"
                /\ validate_ticket(attempt.pdf.ticket).is_valid =>
                      /\ attempt.result.status = "duplicate"
                      /\ _update_stats_from_result(attempt.result, ZeroStats, "").tickets_duplicados = 1
                      /\ attempt.row # None =>
                            /\ attempt.row[1].status = "completed"
                            /\ attempt.row[1].error_message = Some("Duplicado"))

====
